---- MODULE Spec2Model ----
(***************************************************************************)
(* BrainPy object-oriented state layer:                                    *)
(*   brainpy/_src/math/ndarray.py   Array / Variable / VariableView and    *)
(*                                  the transformation-context stack       *)
(*   brainpy/_src/math/object_transform/controls.py                        *)
(*                                  cond / ifelse / for_loop / while_loop  *)
(***************************************************************************)
EXTENDS Integers, Sequences, FiniteSets, TLC

\* ---------------------------------------------------------------- bounds
MaxRank == 2        \* tensors have at most this many axes
MaxDim == 2         \* every axis has length 1..MaxDim
MaxCtxDepth == 1    \* depth of the transformation-context stack
MaxNest == 3        \* its depth where the regions are nested

\* ------------------------------------------------------------ the values
None == "None"
Tags == {"jit", "grad"}
DTypes == {"float32", "int32"}
Dims == 1 .. MaxDim
Shapes == UNION {[1 .. n -> Dims] : n \in 0 .. MaxRank}

Min2(a, b) == IF a <= b THEN a ELSE b
Max2(a, b) == IF a >= b THEN a ELSE b

\* A tensor is its shape, its element type and its contents along the leading
\* axis (one entry per leading index; a 0-d tensor has one entry).
LeadLen(shape) == IF Len(shape) = 0 THEN 1 ELSE shape[1]
Fill(shape, d) == [i \in 1 .. LeadLen(shape) |-> d]
Tensor(shape, dtype, d) == [shape |-> shape, dtype |-> dtype, data |-> Fill(shape, d)]

\* Python's s[i:j] on a tuple, 0-based, i and j clipped to the length.
PySlice(s, i, j) == SubSeq(s, Min2(i, Len(s)) + 1, Min2(j, Len(s)))
\* s[:k] + s[k+1:]
DropAxis(s, k) == PySlice(s, 0, k) \o PySlice(s, k + 1, Len(s))

\* ------------------------------------------------------------- the state
ObjIds == {"a", "b"}
VarClasses == {"Variable", "TrainVar", "Parameter", "VariableView"}

VARIABLES
  ctxStack,     \* _jax_transformation_context_
  obj,          \* the Array / Variable objects, by name
  last,         \* the last operation or call: what was asked, how it ended, what it returned
  disable_jit,  \* jax.config.jax_disable_jit
  stack_cache,  \* the VariableStack cached for each body function
  call,         \* the cond / ifelse / for_loop / while_loop call in progress
  integ,        \* the default ODE and SDE integration methods
  finder        \* the SlowPointFinder

\* batch_axis is <<>> for None and <<k>> for axis k.
NoBatch == <<>>
NullTensor == [shape |-> <<>>, dtype |-> None, data |-> <<>>]

Free == [cls |-> "Free", value |-> NullTensor, ctx |-> None, batch_axis |-> NoBatch,
         origin |-> None, index |-> 0]

cellVars == <<ctxStack, obj, last>>
ctlVars == <<disable_jit, stack_cache, call>>
libVars == <<integ, finder>>
vars == <<ctxStack, obj, last, disable_jit, stack_cache, call, integ, finder>>

Op(op, target, res) == [op |-> op, target |-> target, res |-> res, out |-> <<>>]
Ret(op, out, res) == [op |-> op, target |-> None, res |-> res, out |-> out]
NoOp == Op("none", None, "ok")

\* --------------------------------------------- the default integrators
OdeMethods == {"euler", "heun", "midpoint", "rk2", "rk3", "rk4"}
SdeMethods == {"euler", "heun", "milstein", "srk1w1", "srk2w1"}
IntegInit == [ode |-> "euler", sde |-> "euler"]

\* brainpy.ode / brainpy.sde: the module keeps the default method.
ode_set_default_odeint(method) == [val |-> [integ EXCEPT !.ode = method], ret |-> None]
ode_get_default_odeint == [val |-> integ, ret |-> integ.ode]
sde_set_default_sdeint(method) == [val |-> [integ EXCEPT !.sde = method], ret |-> None]
sde_get_default_sdeint == [val |-> integ, ret |-> integ.sde]

\* The deprecated wrappers: a DeprecationWarning, then the call; no wrapper
\* has a return statement, so each returns None.
Wrapped(op, target, r) ==
  /\ integ' = r.val
  /\ last' = [op |-> op, target |-> target, res |-> "ok", out |-> <<None>>]
  /\ UNCHANGED <<finder, ctxStack, obj, disable_jit, stack_cache, call>>

set_default_odeint(method) == Wrapped("set_default_odeint", method, ode_set_default_odeint(method))
get_default_odeint == Wrapped("get_default_odeint", None, ode_get_default_odeint)
set_default_sdeint(method) == Wrapped("set_default_sdeint", method, sde_set_default_sdeint(method))
get_default_sdeint == Wrapped("get_default_sdeint", None, sde_get_default_sdeint)

\* ------------------------------------------------- the context stack
get_contextOldest == IF Len(ctxStack) > 0 THEN ctxStack[1] ELSE None

get_context == IF Len(ctxStack) > 0 THEN ctxStack[Len(ctxStack)] ELSE None

add_context(name) ==
  /\ ctxStack' = Append(ctxStack, name)
  /\ last' = Op("add_context", name, "ok")
  /\ UNCHANGED <<libVars, obj, ctlVars>>

\* A faulty del_context that compares before it pops and keeps the stack when
\* the tags differ.
del_contextChecksFirst(name) ==
  /\ IF Len(ctxStack) = 0
       THEN /\ ctxStack' = ctxStack
            /\ last' = Op("del_context", name, "MathError")
       ELSE IF name # None /\ get_context # name
         THEN /\ ctxStack' = ctxStack
              /\ last' = Op("del_context", name, "MathError")
         ELSE /\ ctxStack' = SubSeq(ctxStack, 1, Len(ctxStack) - 1)
              /\ last' = Op("del_context", name, "ok")
  /\ UNCHANGED <<libVars, obj, ctlVars>>

\* pop(-1) comes first; the comparison with name is made on the popped tag.
del_context(name) ==
  /\ IF Len(ctxStack) = 0
       THEN /\ ctxStack' = ctxStack
            /\ last' = Op("del_context", name, "MathError")
       ELSE /\ ctxStack' = SubSeq(ctxStack, 1, Len(ctxStack) - 1)
            /\ last' = Op("del_context", name,
                          IF name # None /\ get_context # name THEN "MathError" ELSE "ok")
  /\ UNCHANGED <<libVars, obj, ctlVars>>

\* ------------------------------------------------------ construction
IsVar(o) == o.cls \in VarClasses
Live(o) == o.cls # "Free"
NoneLive == \A i \in ObjIds : ~Live(obj[i])

\* Array.__init__: the value, and the context active at construction.
ArrayInit(cls, t) ==
  [cls |-> cls, value |-> t, ctx |-> get_context, batch_axis |-> NoBatch,
   origin |-> None, index |-> 0]

NewArray(id, t) ==
  /\ NoneLive
  /\ obj' = [obj EXCEPT ![id] = ArrayInit("Array", t)]
  /\ last' = Op("new", id, "ok")
  /\ UNCHANGED <<libVars, ctxStack, ctlVars>>

\* Variable.__init__ on a plain value: a batch_axis beyond the value's axes
\* raises MathError and no object results.
VariableInitRaises(t, k) == k # NoBatch /\ k[1] >= Len(t.shape)

NewVariable(id, cls, t, k) ==
  /\ NoneLive
  /\ IF VariableInitRaises(t, k)
       THEN /\ obj' = obj
            /\ last' = Op("new", id, "MathError")
       ELSE /\ obj' = [obj EXCEPT ![id] = [ArrayInit(cls, t) EXCEPT !.batch_axis = k]]
            /\ last' = Op("new", id, "ok")
  /\ UNCHANGED <<libVars, ctxStack, ctlVars>>

\* Variable.__init__ on a value that is itself a Variable: the new object takes
\* the source's value. With both batch axes given and different, ValueError;
\* then batch_axis becomes the source's, whatever was passed, and is held
\* against the number of axes.
VariableOfBatchAxis(srcAxis, k) == srcAxis

NewVariableOf(id, cls, src, k) ==
  /\ ~Live(obj[id])
  /\ Live(obj[src]) /\ IsVar(obj[src]) /\ obj[src].cls # "VariableView"
  /\ LET t == obj[src].value
         ba == VariableOfBatchAxis(obj[src].batch_axis, k)
     IN  IF obj[src].batch_axis # NoBatch /\ k # NoBatch /\ k # obj[src].batch_axis
           THEN /\ obj' = obj
                /\ last' = Op("new", id, "ValueError")
         ELSE IF VariableInitRaises(t, ba)
           THEN /\ obj' = obj
                /\ last' = Op("new", id, "MathError")
           ELSE /\ obj' = [obj EXCEPT ![id] = [ArrayInit(cls, t) EXCEPT !.batch_axis = ba]]
                /\ last' = Op("new", id, "ok")
  /\ UNCHANGED <<libVars, ctxStack, ctlVars>>

\* VariableView.__init__(value, index): index is the leading slice [:n]; the
\* view keeps a reference to the Variable and takes the Variable's batch_axis.
NewView(id, src, n) ==
  /\ ~Live(obj[id])
  /\ Live(obj[src]) /\ IsVar(obj[src]) /\ obj[src].cls # "VariableView"
  /\ IF VariableInitRaises(obj[src].value, obj[src].batch_axis)
       THEN /\ obj' = obj
            /\ last' = Op("new", id, "MathError")
       ELSE /\ obj' = [obj EXCEPT ![id] =
                        [cls |-> "VariableView", value |-> NullTensor, ctx |-> get_context,
                         batch_axis |-> obj[src].batch_axis, origin |-> src, index |-> n]]
            /\ last' = Op("new", id, "ok")
  /\ UNCHANGED <<libVars, ctxStack, ctlVars>>

\* ------------------------------------------------------------- reading
\* x[:n]; a 0-d tensor cannot be sliced (IndexError).
CanSlice(t) == Len(t.shape) >= 1
LeadSlice(t, n) ==
  LET m == Min2(n, t.shape[1])
  IN  [shape |-> <<m>> \o Tail(t.shape), dtype |-> t.dtype, data |-> SubSeq(t.data, 1, m)]

\* The value property: the stored tensor; for a view, origin[index].
ValueOf(objs, id) ==
  IF objs[id].cls = "VariableView"
    THEN LeadSlice(objs[objs[id].origin].value, objs[id].index)
    ELSE objs[id].value

\* ------------------------------------------------------ the context check
NeedCheckContext(cls) == cls = "Array"

\* Array.__check_context: TRUE when it raises MathError.
CheckContextRaises(o, stack) ==
  /\ NeedCheckContext(o.cls)
  /\ Len(stack) > 0
  /\ IF o.ctx = None THEN TRUE ELSE o.ctx # stack[Len(stack)]

\* -------------------------------------------------------------- writing
\* Faulty variants of the write checks, used to test the properties below.
\* An update that forgets the dtype comparison:
ArrayUpdateNoDtype(o, w) ==
  IF w.shape # o.value.shape THEN "MathError:shape" ELSE "ok"

\* A Variable that runs the context check of Array before anything else:
VariableUpdateChecksContext(o, w) ==
  IF Len(ctxStack) > 0 /\ o.ctx # ctxStack[Len(ctxStack)] THEN "MathError:context"
  ELSE IF w.dtype # o.value.dtype THEN "MathError:dtype"
  ELSE "ok"

\* Array.update: shape, then dtype, must equal the stored value's. The
\* context check is not part of it.
ArrayUpdateRes(o, w) ==
  IF w.shape # o.value.shape THEN "MathError:shape"
  ELSE IF w.dtype # o.value.dtype THEN "MathError:dtype"
  ELSE "ok"

\* Variable.update: the shapes are compared with the batch axis cut out of both.
VariableUpdateRes(o, w) ==
  LET ext == IF o.batch_axis = NoBatch THEN w.shape
             ELSE DropAxis(w.shape, o.batch_axis[1])
      int == IF o.batch_axis = NoBatch THEN o.value.shape
             ELSE DropAxis(o.value.shape, o.batch_axis[1])
  IN  IF ext # int THEN "MathError:shape"
      ELSE IF w.dtype # o.value.dtype THEN "MathError:dtype"
      ELSE "ok"

\* jax: a value can be scattered into a target of shape t when it broadcasts to t.
CanBroadcastTo(s, t) ==
  /\ Len(s) <= Len(t)
  /\ \A i \in 1 .. Len(s) : s[i] = t[Len(t) - Len(s) + i] \/ s[i] = 1

\* VariableView.update: the checks of the view, then origin[index] = value,
\* which is origin.value = origin.value.at[index].set(value).
ViewUpdateRes(objs, id, w) ==
  LET v == objs[id]
      org == objs[v.origin]
  IN  IF ~CanSlice(org.value) THEN "IndexError"
      ELSE LET cur == LeadSlice(org.value, v.index)
               ext == IF v.batch_axis = NoBatch THEN w.shape
                      ELSE DropAxis(w.shape, v.batch_axis[1])
               int == IF v.batch_axis = NoBatch THEN cur.shape
                      ELSE DropAxis(cur.shape, v.batch_axis[1])
           IN  IF ext # int THEN "MathError:shape"
               ELSE IF w.dtype # org.value.dtype THEN "MathError:dtype"
               ELSE IF ~CanBroadcastTo(w.shape, cur.shape) THEN "JaxError:broadcast"
               ELSE "ok"

\* origin.value.at[:n].set(w)
ScatterLead(t, n, w) ==
  LET m == Min2(n, t.shape[1])
  IN  [t EXCEPT !.data = [i \in 1 .. Len(t.data) |->
                            IF i > m THEN t.data[i]
                            ELSE IF Len(w.shape) = Len(t.shape) /\ Len(w.data) = m
                                   THEN w.data[i] ELSE w.data[1]]]

\* update(value) as dispatched on the class of the object: how it ends.
UpdateRes(objs, id, w) ==
  IF objs[id].cls = "Array" THEN ArrayUpdateRes(objs[id], w)
  ELSE IF objs[id].cls = "VariableView" THEN ViewUpdateRes(objs, id, w)
  ELSE VariableUpdateRes(objs[id], w)

\* ... and the objects it leaves.
UpdateObjs(objs, id, w) ==
  IF UpdateRes(objs, id, w) # "ok" THEN objs
  ELSE IF objs[id].cls = "VariableView"
    THEN [objs EXCEPT ![objs[id].origin].value =
                        ScatterLead(objs[objs[id].origin].value, objs[id].index, w)]
    ELSE [objs EXCEPT ![id].value = w]

\* obj.update(w) and obj.value = w
Update(id, w) ==
  /\ Live(obj[id])
  /\ obj' = UpdateObjs(obj, id, w)
  /\ last' = Op("update", id, UpdateRes(obj, id, w))
  /\ UNCHANGED <<libVars, ctxStack, ctlVars>>

\* jnp broadcasting and type promotion of value * oc
Broadcastable(s, t) ==
  \A i \in 1 .. Min2(Len(s), Len(t)) :
    LET x == s[Len(s) - i + 1]
        y == t[Len(t) - i + 1]
    IN  x = y \/ x = 1 \/ y = 1
BroadcastShape(s, t) ==
  LET n == Max2(Len(s), Len(t))
      At(u, i) == IF i > n - Len(u) THEN u[i - (n - Len(u))] ELSE 1
  IN  [i \in 1 .. n |-> Max2(At(s, i), At(t, i))]
Promote(d1, d2) == IF "float32" \in {d1, d2} THEN "float32" ELSE "int32"
\* value * oc, elementwise; an operand is constant along the axes it is
\* broadcast over.
Times(x, oc) ==
  [shape |-> BroadcastShape(x.shape, oc.shape),
   dtype |-> Promote(x.dtype, oc.dtype),
   data |-> IF BroadcastShape(x.shape, oc.shape) = x.shape
              THEN [i \in DOMAIN x.data |->
                      x.data[i] * (IF oc.shape = x.shape THEN oc.data[i] ELSE oc.data[1])]
              ELSE Fill(BroadcastShape(x.shape, oc.shape), x.data[1] * oc.data[1])]

\* Array.__imul__: self.value = self.value * oc
IMul(id, oc) ==
  /\ Live(obj[id])
  /\ obj[id].cls = "VariableView" => CanSlice(obj[obj[id].origin].value)
  /\ IF ~Broadcastable(ValueOf(obj, id).shape, oc.shape)
       THEN /\ obj' = obj
            /\ last' = Op("imul", id, "JaxError:broadcast")
       ELSE /\ obj' = UpdateObjs(obj, id, Times(ValueOf(obj, id), oc))
            /\ last' = Op("imul", id, UpdateRes(obj, id, Times(ValueOf(obj, id), oc)))
  /\ UNCHANGED <<libVars, ctxStack, ctlVars>>

\* A faulty setter that assigns.
SetBatchAxisAssigns(id, k) ==
  /\ Live(obj[id]) /\ IsVar(obj[id])
  /\ obj' = [obj EXCEPT ![id].batch_axis = k]
  /\ last' = Op("set_batch_axis", id, "ok")
  /\ UNCHANGED <<libVars, ctxStack, ctlVars>>

\* The batch_axis and batch_size setters raise ValueError.
SetBatchAxis(id, k) ==
  /\ Live(obj[id]) /\ IsVar(obj[id])
  /\ obj' = obj
  /\ last' = Op("set_batch_axis", id, "ValueError")
  /\ UNCHANGED <<libVars, ctxStack, ctlVars>>

SetBatchSize(id, k) ==
  /\ Live(obj[id]) /\ IsVar(obj[id])
  /\ obj' = obj
  /\ last' = Op("set_batch_size", id, "ValueError")
  /\ UNCHANGED <<libVars, ctxStack, ctlVars>>

\* =========================================================== control flow
\* ------------------------------------------------- values and user functions
\* A Variable that holds a tracer has no contents.
Tracer == <<>>
NoStore == [v \in ObjIds |-> Tracer]
Store(objs) == [v \in ObjIds |-> objs[v].value.data]
PutStore(objs, S) == [v \in ObjIds |-> [objs[v] EXCEPT !.value.data = S[v]]]
Range(s) == {s[i] : i \in DOMAIN s}
Reverse(s) == [i \in 1 .. Len(s) |-> s[Len(s) + 1 - i]]

\* A Python value handed over as operands: one value, or a tuple of values.
Scalar(n) == [tuple |-> FALSE, n |-> n, items |-> <<>>]
Tuple(items) == [tuple |-> TRUE, n |-> 0, items |-> items]
\* if not isinstance(operands, (tuple, list)): operands = (operands,)
AsOperands(o) == IF o.tuple THEN o.items ELSE <<o>>

\* The functions user code passes in: statements "v.value op= operand" and
\* the returned expressions (none: the function returns None).
Stmt(v, op, isArg, n) == [v |-> v, op |-> op, isArg |-> isArg, n |-> n]
Expr(k, v, i, c) == [k |-> k, v |-> v, i |-> i, c |-> c]
WhileLimit == 6

UserFn(f) ==
  CASE f = "true_f"  -> [stmts |-> <<Stmt("a", "add", FALSE, 1)>>, ret |-> <<>>]
    [] f = "false_f" -> [stmts |-> <<Stmt("b", "sub", FALSE, 1)>>, ret |-> <<>>]
    [] f = "add_x"   -> [stmts |-> <<Stmt("a", "add", TRUE, 1)>>,
                         ret |-> <<Expr("var", "a", 0, 0)>>]
    [] f = "read_b"  -> [stmts |-> <<>>, ret |-> <<Expr("var", "b", 0, 0)>>]
    [] f = "body"    -> [stmts |-> <<Stmt("a", "add", TRUE, 1), Stmt("b", "mul", TRUE, 1)>>,
                         ret |-> <<Expr("var", "a", 0, 0)>>]
    [] f = "body2"   -> [stmts |-> <<Stmt("a", "add", TRUE, 1), Stmt("b", "mul", TRUE, 2)>>,
                         ret |-> <<Expr("arg+var0", "b", 1, 0), Expr("arg+const", "a", 2, 1)>>]
    [] f = "grow0"   -> [stmts |-> <<Stmt("a", "add", TRUE, 1)>>,
                         ret |-> <<Expr("var", "a", 0, 0)>>]
    [] f = "grow1"   -> [stmts |-> <<Stmt("a", "add", TRUE, 1), Stmt("b", "mul", TRUE, 1)>>,
                         ret |-> <<Expr("var", "a", 0, 0)>>]
    [] f = "body_chk" -> [stmts |-> <<Stmt("a", "add", TRUE, 1)>>,
                          ret |-> <<Expr("var", "a", 0, 0)>>]
    [] f = "body1"   -> [stmts |-> <<Stmt("a", "add", TRUE, 1)>>,
                         ret |-> <<Expr("arg+const", "a", 1, 1)>>]
    [] f = "inc2"    -> [stmts |-> <<Stmt("a", "add", FALSE, 2)>>, ret |-> <<>>]
    [] f = "step"    -> [stmts |-> <<Stmt("a", "add", TRUE, 1)>>,
                         ret |-> <<Expr("arg+const", "a", 1, 1)>>]
    [] f = "step_t"  -> [stmts |-> <<Stmt("a", "add", TRUE, 1)>>,
                         ret |-> <<Expr("arg+const", "a", 1, 1)>>]
    [] f = "cond_v"  -> [stmts |-> <<>>, ret |-> <<Expr("var0<const", "a", 0, WhileLimit)>>]
    [] f = "cond_lt" -> [stmts |-> <<>>, ret |-> <<Expr("var0<const", "a", 0, 3)>>]
    [] f = "cond_w"  -> [stmts |-> <<Stmt("a", "add", FALSE, 1)>>,
                         ret |-> <<Expr("var0<const", "a", 0, 4)>>]
    [] f = "cond"    -> [stmts |-> <<>>, ret |-> <<Expr("arg<const", "a", 1, WhileLimit)>>]
    [] f = "cond_a"  -> [stmts |-> <<>>, ret |-> <<Expr("var0<const", "a", 0, WhileLimit)>>]
    [] f = "k1"      -> [stmts |-> <<>>, ret |-> <<Expr("const", "a", 0, 1)>>]
    [] f = "k2"      -> [stmts |-> <<Stmt("a", "add", FALSE, 2)>>,
                         ret |-> <<Expr("const", "a", 0, 2)>>]
    [] f = "k3"      -> [stmts |-> <<Stmt("b", "add", FALSE, 3)>>,
                         ret |-> <<Expr("const", "a", 0, 3)>>]
    [] f = "k4"      -> [stmts |-> <<Stmt("a", "add", FALSE, 4)>>,
                         ret |-> <<Expr("const", "a", 0, 4)>>]
    [] f = "k5"      -> [stmts |-> <<>>, ret |-> <<Expr("const", "a", 0, 5)>>]
    [] f = "p1"      -> [stmts |-> <<>>, ret |-> <<Expr("const", "a", 0, 1)>>]
    [] f = "p2"      -> [stmts |-> <<Stmt("a", "add", FALSE, 2)>>,
                         ret |-> <<Expr("const", "a", 0, 2)>>]
    [] f = "p3"      -> [stmts |-> <<>>, ret |-> <<Expr("const", "a", 0, 3)>>]
    [] f = "v1"      -> [stmts |-> <<>>, ret |-> <<Expr("const", "a", 0, 1)>>]
    [] f = "v2"      -> [stmts |-> <<Stmt("a", "add", FALSE, 2)>>,
                         ret |-> <<Expr("const", "a", 0, 2)>>]
    [] f = "v3"      -> [stmts |-> <<>>, ret |-> <<Expr("const", "a", 0, 3)>>]

ApplyOp(d, op, k) ==
  [i \in DOMAIN d |-> CASE op = "add" -> d[i] + k
                        [] op = "sub" -> d[i] - k
                        [] op = "mul" -> d[i] * k]

RECURSIVE ExecStmts(_, _, _)
ExecStmts(stmts, S, args) ==
  IF stmts = <<>> THEN S
  ELSE LET st == Head(stmts)
           k == IF st.isArg THEN args[st.n] ELSE st.n
       IN  ExecStmts(Tail(stmts), [S EXCEPT ![st.v] = ApplyOp(@, st.op, k)], args)

\* A returned value is a list of numbers: an array's contents, or one scalar.
EvalExpr(e, S, args) ==
  CASE e.k = "var"        -> S[e.v]
    [] e.k = "const"      -> <<e.c>>
    [] e.k = "arg+var0"   -> <<args[e.i] + S[e.v][1]>>
    [] e.k = "arg+const"  -> <<args[e.i] + e.c>>
    [] e.k = "arg<const"  -> <<IF args[e.i] < e.c THEN 1 ELSE 0>>
    [] e.k = "var0<const" -> <<IF S[e.v][1] < e.c THEN 1 ELSE 0>>

\* f(*args) run on the Variable values S: the values it leaves, what it returns.
RunFn(f, S, args) ==
  LET S2 == ExecStmts(UserFn(f).stmts, S, args)
  IN  [store |-> S2,
       out |-> [j \in DOMAIN UserFn(f).ret |-> EvalExpr(UserFn(f).ret[j], S2, args)]]

\* What f returns as a Python value: None when it has no return statement, a
\* tuple when it returns one ("return x, y", and step_t's "return (x + 1,)"),
\* else the one value it returns.
ReturnsTuple(f) == Len(UserFn(f).ret) >= 2 \/ f = "step_t"
PyReturn(f, out) ==
  [kind |-> IF UserFn(f).ret = <<>> THEN "None"
            ELSE IF ReturnsTuple(f) THEN "tuple" ELSE "value",
   items |-> out]

\* The parameters of each function: p1..p3 are "lambda x, y: ...", v1..v3 are
\* "lambda *p: ..." and take any number of arguments; a call with another
\* number of arguments raises TypeError.
Variadic(f) == f \in {"v1", "v2", "v3", "cond_v", "cond_lt", "cond_w"}
Params(f) ==
  IF f \in {"p1", "p2", "p3", "body2", "body1", "cond", "cond_a"} THEN 2
  ELSE IF f = "inc2" THEN 0 ELSE 1
Accepts(f, args) == Variadic(f) \/ Params(f) = Len(args)

\* body_chk checks its argument before anything else and raises ValueError
\* when it is 3 or more; it can do so only where it is handed numbers, not tracers.
Raises(f, args) == f = "body_chk" /\ args[1] >= 3

Writes(f) == {UserFn(f).stmts[i].v : i \in DOMAIN UserFn(f).stmts}
ReadsVar(e) == e.k \in {"var", "arg+var0", "var0<const"}

\* ------------------------------------------------------------- discovery
\* The VariableStack: each Variable once, in the order first met.
RECURSIVE Dedup(_)
Dedup(s) ==
  IF s = <<>> THEN <<>>
  ELSE LET r == Dedup(SubSeq(s, 1, Len(s) - 1))
       IN  IF s[Len(s)] \in Range(r) THEN r ELSE Append(r, s[Len(s)])

\* stack += other
StackUnion(s1, s2) == Dedup(s1 \o s2)

\* Abstract execution of f records the Variables it reads or writes and leaves
\* their values as they were.
evaluate_dyn_vars(f) ==
  Dedup([i \in DOMAIN UserFn(f).stmts |-> UserFn(f).stmts[i].v]
        \o [i \in DOMAIN SelectSeq(UserFn(f).ret, ReadsVar) |->
              SelectSeq(UserFn(f).ret, ReadsVar)[i].v])

\* A faulty discovery that leaves the Variables as the abstract run left them.
AfterDiscoveryKeepsTraced(writes, dyn, S) ==
  [v \in ObjIds |-> IF v \in writes THEN Tracer ELSE S[v]]

\* The Variable values after the discovery of a function that assigns the
\* Variables writes and yields the stack dyn, run from the values S: the
\* abstract run leaves an abstract value in each Variable it assigns; leaving
\* the stack gives each Variable on it the value collected when it was met.
AfterDiscovery(writes, dyn, S) ==
  LET T == [v \in ObjIds |-> IF v \in writes THEN Tracer ELSE S[v]]
  IN  [v \in ObjIds |-> IF v \in Range(dyn) THEN S[v] ELSE T[v]]

\* dyn_vars.dict_data()
dict_data(dyn, S) == [v \in ObjIds |-> IF v \in Range(dyn) THEN S[v] ELSE Tracer]

\* ------------------------------------------------------- calls in progress
MaxVal == 1      \* a call starts only from Variable contents in 0..MaxVal
MaxConds == 4    \* ifelse takes at most this many conditions
MaxLen == 4      \* for_loop operands have at most this many slices
MaxIter == 3     \* while_loop runs its body at most this many times

NoConds == [seq |-> TRUE, v |-> <<>>]
\* The deprecated arguments dyn_vars and child_objs (the Variables they name);
\* <<>> stands for None.
NoLegacy == [dyn_vars |-> <<>>, child_objs |-> <<>>]
IdleCall ==
  [op |-> "idle", pc |-> "idle", fns |-> <<>>, conds |-> NoConds, args |-> <<>>,
   xs |-> <<>>, jit |-> TRUE, reverse |-> FALSE, dyn |-> <<>>, carry |-> NoStore,
   opnds |-> <<>>, i |-> 0, tests |-> 0, outs |-> <<>>, pre |-> NoStore,
   cached |-> FALSE, given |-> NoLegacy, operands |-> Scalar(0),
   has_return |-> FALSE, slots |-> <<>>]

Idle == call.pc = "idle"
InRange(S) == \A v \in ObjIds : S[v] # Tracer /\ \A i \in DOMAIN S[v] : S[v][i] \in 0 .. MaxVal
\* The functions return a.value or b.value, and lax.cond wants one type from
\* both branches: calls are made while the Variables have the same shape.
SameShapes == \A v, w \in ObjIds : obj[v].value.shape = obj[w].value.shape
CanCall == Idle /\ SameShapes /\ InRange(Store(obj))

\* The caller hands over its arguments.
Invoke(c) ==
  /\ CanCall
  /\ call' = c
  /\ UNCHANGED <<libVars, ctxStack, obj, last, disable_jit, stack_cache>>

\* The call ends: the Variables it leaves, what it returns or raises.
Return(objs, r) ==
  /\ obj' = objs
  /\ last' = r
  /\ call' = IdleCall
  /\ UNCHANGED <<libVars, ctxStack, disable_jit>>

\* ------------------------------------------------------- cond and ifelse
\* ifelse turns conditions [c1..cn] and branches [b1..bn+1] into nested calls
\* cond(c1, b1, f, operands) with f = lambda r: cond(c2, b2, f', r) and so on
\* down to bn+1. The callable from position j on is branch j past the last
\* condition and such a lambda before it.
RECURSIVE ChainDynVars(_, _, _)
ChainDynVars(j, conds, brs) ==
  IF j > Len(conds) THEN evaluate_dyn_vars(brs[j])
  ELSE StackUnion(evaluate_dyn_vars(brs[j]), ChainDynVars(j + 1, conds, brs))

RECURSIVE ChainWrites(_, _, _)
ChainWrites(j, conds, brs) ==
  IF j > Len(conds) THEN Writes(brs[j])
  ELSE Writes(brs[j]) \cup ChainWrites(j + 1, conds, brs)

\* A faulty discovery that looks at true_fun only.
CondDynVarsTrueOnly(j, conds, brs, nojit) ==
  IF nojit THEN <<>> ELSE evaluate_dyn_vars(brs[j])

\* A faulty cond that merges the stack of false_fun first.
CondDynVarsRightFirst(j, conds, brs, nojit) ==
  IF nojit THEN <<>>
  ELSE StackUnion(ChainDynVars(j + 1, conds, brs), evaluate_dyn_vars(brs[j]))

\* A faulty cond that threads the dyn_vars it is given, as before 2.4.0.
CondDynVarsGiven(j, conds, brs, nojit) ==
  IF call.given.dyn_vars # <<>> THEN call.given.dyn_vars
  ELSE IF nojit THEN <<>>
  ELSE StackUnion(evaluate_dyn_vars(brs[j]), ChainDynVars(j + 1, conds, brs))

\* cond's dyn_vars: none with jit disabled, else those of true_fun, then
\* false_fun. The dyn_vars argument is not read: the name is bound anew.
CondDynVars(j, conds, brs, nojit) ==
  IF nojit THEN <<>>
  ELSE StackUnion(evaluate_dyn_vars(brs[j]), ChainDynVars(j + 1, conds, brs))

\* A faulty nesting in which every level falls through to the last branch.
condFallsToLast(j, conds, brs, S, args, nojit) ==
  LET sel == IF conds[j] THEN RunFn(brs[j], S, args) ELSE RunFn(brs[Len(brs)], S, args)
  IN  [store |-> sel.store, out |-> sel.out, err |-> "ok", got |-> args]

\* The selected function is called with *operands: what it leaves and
\* returns, and the arguments it got.
Raised(S, err) == [store |-> S, out |-> <<>>, err |-> err, got |-> <<>>]
Called(f, S, args) ==
  IF ~Accepts(f, args) THEN Raised(S, "TypeError")
  ELSE [store |-> RunFn(f, S, args).store, out |-> RunFn(f, S, args).out, err |-> "ok",
        got |-> args]

\* The callable from j + 1 on is "lambda r: cond(conditions[j + 1], ..., r)"
\* when a condition j + 1 exists: it takes one argument, which the inner cond
\* treats as its operands. Some call made for cond(conds[j], ...) on args,
\* at this level or inside the lambdas, is given arguments it does not accept:
RECURSIVE ArgsRaise(_, _, _, _)
ArgsRaise(j, conds, brs, args) ==
  \/ ~Accepts(brs[j], args)
  \/ IF j + 1 > Len(conds) THEN ~Accepts(brs[j + 1], args)
     ELSE Len(args) # 1 \/ ArgsRaise(j + 1, conds, brs, AsOperands(args[1]))

\* The structure of what f returns. lax.cond traces both functions and raises
\* TypeError when their outputs differ in structure; the callable from j + 1
\* on returns what its own cond returns.
OutTree(f) == Len(UserFn(f).ret)
SameTrees(j, brs) == \A k \in j .. Len(brs) : OutTree(brs[k]) = OutTree(brs[j])

\* cond(conds[j], brs[j], <the callable from j + 1 on>, operands) on the Variable
\* values S. With jit disabled lax.cond calls the selected function on the
\* Variables as they are. Otherwise both wrapped functions are traced, which
\* leaves a tracer in each of the dyn_vars and in each Variable they assign;
\* the selected one's result is computed from old_values and written back to
\* the dyn_vars. When lax.cond raises, nothing is written back: the exception
\* leaves cond as it is, and the Variables as the tracing left them. A call
\* with arguments the callee does not accept raises TypeError: with jit
\* disabled when that call is reached, otherwise in discovery, which calls
\* both functions whatever pred is, before any Variable is touched.
\* old_values: what the dyn_vars hold once both functions were discovered.
CondOldValues(j, conds, brs, S, nojit) ==
  IF nojit THEN S
  ELSE AfterDiscovery(ChainWrites(j + 1, conds, brs), ChainDynVars(j + 1, conds, brs),
                      AfterDiscovery(Writes(brs[j]), evaluate_dyn_vars(brs[j]), S))

RECURSIVE cond(_, _, _, _, _, _)
cond(j, conds, brs, S, args, nojit) ==
  LET dyn == CondDynVars(j, conds, brs, nojit)
      old == CondOldValues(j, conds, brs, S, nojit)
      sel == IF conds[j] THEN Called(brs[j], old, args)
             ELSE IF j + 1 > Len(conds) THEN Called(brs[j + 1], old, args)
             ELSE IF Len(args) # 1 THEN Raised(old, "TypeError")
             ELSE cond(j + 1, conds, brs, old, AsOperands(args[1]), nojit)
      traced == Writes(brs[j]) \cup ChainWrites(j + 1, conds, brs)
  IN  IF nojit THEN sel
      ELSE IF ArgsRaise(j, conds, brs, args) THEN Raised(S, "TypeError")
      ELSE IF ~SameTrees(j, brs)
        THEN Raised([v \in ObjIds |-> IF v \in Range(dyn) \cup traced THEN Tracer ELSE S[v]],
                    "TypeError")
      ELSE [store |-> [v \in ObjIds |-> IF v \in Range(dyn) THEN sel.store[v]
                                        ELSE IF v \in traced THEN Tracer
                                        ELSE S[v]],
            out |-> sel.out, err |-> "ok", got |-> sel.got]

\* conditions that is no list or tuple becomes [conditions]
Conditions(c) == IF c.seq THEN c.v ELSE <<c.v[1]>>

\* A faulty arity check that lets a surplus of branches through.
ifelseAcceptsSurplus(c, brs, S, operands, nojit) ==
  IF Len(brs) < Len(Conditions(c)) + 1 \/ Len(Conditions(c)) = 0
    THEN Raised(S, "ValueError")
  ELSE cond(1, Conditions(c), brs, S, AsOperands(operands), nojit)

\* ifelse: the arity check comes before any branch is looked at; with no
\* condition at all, conditions[0] raises IndexError. operands goes as it is
\* to the outermost cond.
ifelse(c, brs, S, operands, nojit) ==
  IF Len(brs) # Len(Conditions(c)) + 1 THEN Raised(S, "ValueError")
  ELSE IF Len(Conditions(c)) = 0 THEN Raised(S, "IndexError")
  ELSE cond(1, Conditions(c), brs, S, AsOperands(operands), nojit)

CondCall(pred, tf, ff, x) ==
  [IdleCall EXCEPT !.op = "cond", !.pc = "called", !.fns = <<tf, ff>>,
                   !.conds = [seq |-> FALSE, v |-> <<pred>>], !.args = <<x>>]
CallCond(pred, tf, ff, x) == Invoke(CondCall(pred, tf, ff, x))

Cond ==
  /\ call.op = "cond" /\ call.pc = "called"
  /\ LET r == cond(1, <<call.conds.v[1]>>, call.fns, Store(obj), call.args, disable_jit)
     IN  Return(PutStore(obj, r.store), Ret("cond", r.out, r.err))
  /\ UNCHANGED stack_cache

IfelseCall(c, brs, operands) ==
  [IdleCall EXCEPT !.op = "ifelse", !.pc = "called", !.fns = brs, !.conds = c,
                   !.operands = operands]
CallIfelse(c, brs, operands) == Invoke(IfelseCall(c, brs, operands))

Ifelse ==
  /\ call.op = "ifelse" /\ call.pc = "called"
  /\ LET r == ifelse(call.conds, call.fns, Store(obj), call.operands, disable_jit)
     IN  Return(PutStore(obj, r.store), Ret("ifelse", r.out, r.err))
  /\ UNCHANGED stack_cache

\* -------------------------------------------------------------- for_loop
ForBodies == {"body", "add_x"}
\* ... and every function that is ever handed to for_loop
BodyFns == ForBodies \cup {"body_chk", "grow"}
\* grow is one function object whose body reads a flag of user code: it is
\* grow0 (a.value += x) while the flag is off and grow1 (a.value += x;
\* b.value *= x) while it is on. The cache knows a function by its identity.
Identity(f) == IF f \in {"grow0", "grow1"} THEN "grow" ELSE f
NoCache == [has |-> FALSE, stack |-> <<>>]

\* get_stack_cache(body_fun), and the cache after cache_stack(body_fun, dyn)
get_stack_cache(f) == stack_cache[Identity(f)]
cache_stack(f, dyn) == [stack_cache EXCEPT ![Identity(f)] = [has |-> TRUE, stack |-> dyn]]

\* A faulty lookup that discovers anew on every jit-enabled call.
ForLoopDynVarsRediscovers(entry, f, jit) ==
  IF jit THEN evaluate_dyn_vars(f)
  ELSE IF entry.has THEN entry.stack
  ELSE <<>>

\* A faulty lookup that gets an empty stack out of the cache.
ForLoopDynVarsEmptyHit(entry, f, jit) ==
  IF entry.has THEN <<>>
  ELSE IF ~jit THEN <<>>
  ELSE evaluate_dyn_vars(f)

\* for_loop's dyn_vars, entry being what get_stack_cache(body_fun) gives: the
\* cached stack; with none cached, an empty stack when jit is off and the
\* discovered one when jit is on.
ForLoopDynVars(entry, f, jit) ==
  IF entry.has THEN entry.stack
  ELSE IF ~jit THEN <<>>
  ELSE evaluate_dyn_vars(f)

\* A faulty step that leaves the dyn_vars as they are instead of giving them
\* the carry.
fun2scanSkipsRestore(dyn, f, carry, S, x) ==
  LET R == RunFn(f, S, <<x>>)
  IN  [store |-> R.store, carry |-> dict_data(dyn, R.store), out |-> R.out]

\* A faulty step that hands the carry on as it came.
fun2scanKeepsCarry(dyn, f, carry, S, x) ==
  LET R == RunFn(f, [v \in ObjIds |-> IF v \in Range(dyn) THEN carry[v] ELSE S[v]], <<x>>)
  IN  [store |-> R.store, carry |-> carry, out |-> R.out]

\* fun2scan(carry, x): the dyn_vars take the carry, body_fun(*x) runs, and the
\* dyn_vars are read again. S holds what the other Variables hold.
fun2scan(dyn, f, carry, S, x) ==
  LET R == RunFn(f, [v \in ObjIds |-> IF v \in Range(dyn) THEN carry[v] ELSE S[v]], <<x>>)
  IN  [store |-> R.store, carry |-> dict_data(dyn, R.store), out |-> R.out]

\* Tracing a wrapped function leaves a tracer in the dyn_vars and in every
\* Variable the function assigns.
Traced(objs, vs) ==
  PutStore(objs, [v \in ObjIds |-> IF v \in vs THEN Tracer ELSE Store(objs)[v]])

\* for v in dyn_vars: v._value = dyn_vals[v]
Scatter(objs, dyn, vals) ==
  PutStore(objs, [v \in ObjIds |-> IF v \in Range(dyn) THEN vals[v] ELSE Store(objs)[v]])

\* A scan that ignores reverse.
SliceIndexForward(i, n, reverse) == i + 1

\* lax.scan: the slice (1-based) that step i + 1 consumes, of n.
SliceIndex(i, n, reverse) == IF reverse THEN n - i ELSE i + 1

\* lax.scan(fun2scan, init, xs) run to its end over the slices xs in the order
\* given: the final carry, the Variable values left, the outputs in step order.
RECURSIVE scan(_, _, _, _, _, _)
scan(dyn, f, carry, S, xs, jit) ==
  IF xs = <<>> THEN [carry |-> carry, store |-> S, outs |-> <<>>]
  ELSE LET r == fun2scan(dyn, f, carry, S, Head(xs))
           rest == scan(dyn, f, r.carry, IF jit THEN S ELSE r.store, Tail(xs), jit)
       IN  [carry |-> rest.carry, store |-> rest.store, outs |-> <<r.out>> \o rest.outs]

\* What the Variables hold when lax.scan is called: discovery has run when jit
\* is on and no stack was cached.
ForLoopInit(entry, f, jit, S) ==
  IF jit /\ ~entry.has THEN AfterDiscovery(Writes(f), evaluate_dyn_vars(f), S) ELSE S

\* for_loop(body_fun, operands, reverse, jit) as one computation, entry being
\* what the cache holds for body_fun and S the Variable values at the call.
\* With jit off, lax.scan runs under disable_jit, where it refuses operands
\* of length 0 (ValueError).
for_loop(entry, f, xs, reverse, jit, S) ==
  LET dyn == ForLoopDynVars(entry, f, jit)
      S1 == ForLoopInit(entry, f, jit, S)
      sc == scan(dyn, f, dict_data(dyn, S1), S, IF reverse THEN Reverse(xs) ELSE xs, jit)
  IN  IF ~jit /\ xs = <<>> THEN [store |-> S, out |-> <<>>, err |-> "ValueError"]
      ELSE [store |-> [v \in ObjIds |->
                        IF v \in Range(dyn) THEN sc.carry[v]
                        ELSE IF ~jit THEN sc.store[v]
                        ELSE IF v \in Writes(f) THEN Tracer
                        ELSE S[v]],
            out |-> IF reverse THEN Reverse(sc.outs) ELSE sc.outs,
            err |-> "ok"]

ForLoopCall(f, xs, reverse, jit) ==
  [IdleCall EXCEPT !.op = "for_loop", !.pc = "called", !.fns = <<f>>, !.xs = xs,
                   !.reverse = reverse, !.jit = jit]
CallForLoop(f, xs, reverse, jit) == Invoke(ForLoopCall(f, xs, reverse, jit))

\* The stack comes from the cache; without one it is empty when jit is off,
\* and discovered and cached when jit is on. Then lax.scan starts from
\* dyn_vars.dict_data(); under jit it traces fun2scan first.
ForLoopBegin ==
  /\ call.op = "for_loop" /\ call.pc = "called"
  /\ LET f == call.fns[1]
         dyn == ForLoopDynVars(get_stack_cache(f), f, call.jit)
     IN  /\ stack_cache' = IF call.jit /\ ~get_stack_cache(f).has
                             THEN cache_stack(f, dyn) ELSE stack_cache
         /\ call' = [call EXCEPT !.pc = "scan", !.dyn = dyn, !.pre = Store(obj),
                                 !.carry = dict_data(dyn, ForLoopInit(get_stack_cache(f), f,
                                                                      call.jit, Store(obj))),
                                 !.cached = get_stack_cache(f).has]
         /\ obj' = IF call.jit THEN Traced(obj, Range(dyn) \cup Writes(f)) ELSE obj
  /\ UNCHANGED <<libVars, ctxStack, last, disable_jit>>

\* One step of the scan: the next slice, from the front or, reversed, from the
\* back. With jit off the step runs on the Variables themselves.
\* An exception raised by body_fun ends the call there; nothing catches it.
ForLoopStep ==
  /\ call.op = "for_loop" /\ call.pc = "scan" /\ call.i < Len(call.xs)
  /\ LET k == SliceIndex(call.i, Len(call.xs), call.reverse)
         r == fun2scan(call.dyn, call.fns[1], call.carry,
                       IF call.jit THEN call.pre ELSE Store(obj), call.xs[k])
     IN  IF Raises(call.fns[1], <<call.xs[k]>>)
           THEN /\ obj' = Scatter(obj, call.dyn, call.carry)
                /\ last' = Ret("for_loop", <<>>, "ValueError")
                /\ call' = IdleCall
           ELSE /\ call' = [call EXCEPT !.carry = r.carry, !.i = @ + 1,
                                        !.outs = Append(@, r.out)]
                /\ obj' = IF call.jit THEN obj ELSE PutStore(obj, r.store)
                /\ last' = last
  /\ UNCHANGED <<libVars, ctxStack, disable_jit, stack_cache>>

\* The final carry goes back into the dyn_vars; the outputs are stacked by slice.
\* With jit off and no slice at all, lax.scan has raised ValueError instead.
ForLoopEnd ==
  /\ call.op = "for_loop" /\ call.pc = "scan" /\ call.i = Len(call.xs)
  /\ IF ~call.jit /\ call.xs = <<>>
       THEN Return(obj, Ret("for_loop", <<>>, "ValueError"))
       ELSE Return(Scatter(obj, call.dyn, call.carry),
                   Ret("for_loop", IF call.reverse THEN Reverse(call.outs) ELSE call.outs,
                       "ok"))
  /\ UNCHANGED stack_cache

\* ------------------------------------------------------------ while_loop
\* _cond_fun(op): the dyn_vars take the carried values, cond_fun(*operands) runs.
\* A faulty _cond_fun that hands on the dyn_vars as cond_fun left them.
while_cond_funCarriesWrites(dyn, f, carry, S, opnds) ==
  LET R == RunFn(f, [v \in ObjIds |-> IF v \in Range(dyn) THEN carry[v] ELSE S[v]], opnds)
  IN  [store |-> R.store, r |-> R.out[1][1] = 1, carry |-> dict_data(dyn, R.store)]

\* It returns the test alone: lax.while_loop keeps the carried state it got.
while_cond_fun(dyn, f, carry, S, opnds) ==
  LET R == RunFn(f, [v \in ObjIds |-> IF v \in Range(dyn) THEN carry[v] ELSE S[v]], opnds)
  IN  [store |-> R.store, r |-> R.out[1][1] = 1, carry |-> carry]

\* if new_vals is None: new_vals = tuple(); if it is not a tuple: (new_vals,)
new_vals(r) ==
  IF r.kind = "None" THEN <<>>
  ELSE IF r.kind # "tuple" THEN <<r.items[1]>>
  ELSE r.items

\* A faulty _body_fun that appends body_fun's result to the operands it got.
while_body_fun_accumulates(dyn, f, carry, S, opnds) ==
  LET R == RunFn(f, [v \in ObjIds |-> IF v \in Range(dyn) THEN carry[v] ELSE S[v]], opnds)
      nv == new_vals(PyReturn(f, R.out))
  IN  [store |-> R.store, carry |-> dict_data(dyn, R.store),
       opnds |-> opnds \o [j \in DOMAIN nv |-> nv[j][1]]]

\* A faulty _body_fun that passes its operands on instead of body_fun's result.
while_body_fun_keeps_operands(dyn, f, carry, S, opnds) ==
  LET R == RunFn(f, [v \in ObjIds |-> IF v \in Range(dyn) THEN carry[v] ELSE S[v]], opnds)
  IN  [store |-> R.store, carry |-> dict_data(dyn, R.store), opnds |-> opnds]

\* _body_fun(op): the dyn_vars take the carried values, body_fun(*operands)
\* runs; what it returns, made a tuple, are the next operands.
while_body_fun(dyn, f, carry, S, opnds) ==
  LET R == RunFn(f, [v \in ObjIds |-> IF v \in Range(dyn) THEN carry[v] ELSE S[v]], opnds)
      nv == new_vals(PyReturn(f, R.out))
  IN  [store |-> R.store, carry |-> dict_data(dyn, R.store),
       opnds |-> [j \in DOMAIN nv |-> nv[j][1]]]

\* while_loop's dyn_vars: none with jit disabled, else those of body_fun, then
\* cond_fun. The dyn_vars argument is not read.
WhileDynVars(body_fun, cond_fun, nojit) ==
  IF nojit THEN <<>>
  ELSE StackUnion(evaluate_dyn_vars(body_fun), evaluate_dyn_vars(cond_fun))

\* What the Variables hold when lax.while_loop is called: with jit enabled,
\* body_fun and then cond_fun have been discovered.
WhileInit(body_fun, cond_fun, nojit, S) ==
  IF nojit THEN S
  ELSE AfterDiscovery(Writes(cond_fun), evaluate_dyn_vars(cond_fun),
                      AfterDiscovery(Writes(body_fun), evaluate_dyn_vars(body_fun), S))

WhileLoopCall(body_fun, cond_fun, operands) ==
  [IdleCall EXCEPT !.op = "while_loop", !.pc = "called", !.fns = <<body_fun, cond_fun>>,
                   !.args = operands]
CallWhileLoop(body_fun, cond_fun, operands) ==
  Invoke(WhileLoopCall(body_fun, cond_fun, operands))

WhileLoopBegin ==
  /\ call.op = "while_loop" /\ call.pc = "called"
  /\ LET dyn == WhileDynVars(call.fns[1], call.fns[2], disable_jit)
     IN  /\ call' = [call EXCEPT !.pc = "test", !.jit = ~disable_jit, !.dyn = dyn,
                                 !.pre = Store(obj),
                                 !.carry = dict_data(dyn, WhileInit(call.fns[1], call.fns[2],
                                                                    disable_jit, Store(obj))),
                                 !.opnds = call.args]
         /\ obj' = IF disable_jit THEN obj
                   ELSE Traced(obj, Range(dyn) \cup Writes(call.fns[1]) \cup Writes(call.fns[2]))
  /\ UNCHANGED <<libVars, ctxStack, last, disable_jit, stack_cache>>

\* The functions take as many parameters as the call has operands. Traced,
\* lax.while_loop raises TypeError at once when what _body_fun returns differs
\* in structure from init_val; with jit disabled the loop is run as written,
\* and cond_fun(*old_vals) raises TypeError when a body run has left another
\* number of operands. Nothing catches either.
WhileLoopRaises ==
  IF call.jit THEN OutTree(call.fns[1]) # Len(call.args)
  ELSE Len(call.opnds) # Len(call.args)

\* cond_fun decides on the carried state; what it assigns is not carried.
WhileLoopTest ==
  /\ call.op = "while_loop" /\ call.pc = "test"
  /\ LET t == while_cond_fun(call.dyn, call.fns[2], call.carry,
                             IF call.jit THEN call.pre ELSE Store(obj), call.opnds)
     IN  IF WhileLoopRaises
           THEN /\ obj' = obj
                /\ last' = Ret("while_loop", <<>>, "TypeError")
                /\ call' = IdleCall
           ELSE /\ call' = [call EXCEPT !.pc = IF t.r THEN "body" ELSE "exit",
                                        !.carry = t.carry, !.tests = @ + 1]
                /\ obj' = IF call.jit THEN obj ELSE PutStore(obj, t.store)
                /\ last' = last
  /\ UNCHANGED <<libVars, ctxStack, disable_jit, stack_cache>>

WhileLoopBody ==
  /\ call.op = "while_loop" /\ call.pc = "body" /\ call.i < MaxIter
  /\ LET r == while_body_fun(call.dyn, call.fns[1], call.carry,
                             IF call.jit THEN call.pre ELSE Store(obj), call.opnds)
     IN  /\ call' = [call EXCEPT !.pc = "test", !.carry = r.carry, !.opnds = r.opnds,
                                 !.i = @ + 1]
         /\ obj' = IF call.jit THEN obj ELSE PutStore(obj, r.store)
  /\ UNCHANGED <<libVars, ctxStack, last, disable_jit, stack_cache>>

WhileLoopEnd ==
  /\ call.op = "while_loop" /\ call.pc = "exit"
  /\ Return(Scatter(obj, call.dyn, call.carry),
            Ret("while_loop", [j \in DOMAIN call.opnds |-> <<call.opnds[j]>>], "ok"))
  /\ UNCHANGED stack_cache

\* ------------------------------------- make_loop, make_while, make_cond
\* The older builders take dyn_vars from the caller and carry a list with one
\* slot per entry of tuple(dyn_vars).
\* for v, d in zip(dyn_vars, values): v._value = d
ZipAssign(S, dyn, values) ==
  [v \in ObjIds |->
     IF v \in Range(dyn)
       THEN values[CHOOSE i \in DOMAIN dyn : dyn[i] = v /\ \A k \in i + 1 .. Len(dyn) : dyn[k] # v]
       ELSE S[v]]
\* [v.value for v in dyn_vars]
ReadAll(S, dyn) == [i \in DOMAIN dyn |-> S[dyn[i]]]

\* A Variable that kept a tracer from an earlier call makes jax raise
\* UnexpectedTracerError as soon as a function uses it.
Leaked(dyn, fns, S) ==
  \E v \in Range(dyn) \cup UNION {Range(evaluate_dyn_vars(fns[i])) : i \in DOMAIN fns} :
    S[v] = Tracer
\* What a traced run leaves in the Variables: a tracer in the dyn_vars and in
\* every Variable the functions assign.
TracedStore(dyn, fns, S) ==
  [v \in ObjIds |->
     IF v \in Range(dyn) \cup UNION {Writes(fns[i]) : i \in DOMAIN fns} THEN Tracer ELSE S[v]]

\* What the Variables hold when the primitive raises: traced, a tracer in the
\* dyn_vars and in every Variable the functions assign; with jit disabled the
\* dyn_vars as the last wrapped function was given them.
ExcStore(dyn, fns, slots, S, pre, nojit) ==
  IF nojit THEN ZipAssign(S, dyn, slots) ELSE TracedStore(dyn, fns, pre)

\* The handlers around the primitive: UnexpectedTracerError restores the
\* dyn_vars and becomes JaxTracerError; "except Exception", where the callable
\* has it, restores them and raises the exception again.
Handled(dyn, init_values, store, err, catchesAll) ==
  [store |-> IF err = "UnexpectedTracerError" \/ catchesAll
               THEN ZipAssign(store, dyn, init_values) ELSE store,
   res |-> IF err = "UnexpectedTracerError" THEN "JaxTracerError" ELSE err]

\* fun2scan of _get_scan_info on the carried list: the dyn_vars take the
\* list, f(x) runs, the dyn_vars are read again.
fun2scanSlots(dyn, f, slots, S, x) ==
  LET R == RunFn(f, ZipAssign(S, dyn, slots), <<x>>)
  IN  [store |-> R.store, slots |-> ReadAll(R.store, dyn), out |-> R.out]

\* make_while's _cond_fun returns the test alone, its _body_fun the dyn_vars
\* read again (and x as it came).
while_cond_funSlots(dyn, cond_fun, slots, S, x) ==
  LET R == RunFn(cond_fun, ZipAssign(S, dyn, slots), <<x>>)
  IN  [store |-> R.store, r |-> R.out[1][1] = 1]
while_body_funSlots(dyn, body_fun, slots, S, x) ==
  LET R == RunFn(body_fun, ZipAssign(S, dyn, slots), <<x>>)
  IN  [store |-> R.store, slots |-> ReadAll(R.store, dyn)]

\* lax.cond(pred, _true_fun, _false_fun, (old_values, x)) of make_cond. Traced,
\* both branches must return the same structure (TypeError); with jit disabled
\* the chosen branch alone runs.
lax_cond(dyn, pred, true_fun, false_fun, init, S, x, nojit) ==
  LET f == IF pred THEN true_fun ELSE false_fun
      fns == <<true_fun, false_fun>>
      R == RunFn(f, ZipAssign(S, dyn, init), <<x>>)
  IN  IF Leaked(dyn, IF nojit THEN <<f>> ELSE fns, S)
        THEN [err |-> "UnexpectedTracerError", slots |-> init,
              store |-> ExcStore(dyn, fns, init, S, S, nojit), out |-> <<>>]
      ELSE IF ~nojit /\ OutTree(true_fun) # OutTree(false_fun)
        THEN [err |-> "TypeError", slots |-> init,
              store |-> ExcStore(dyn, fns, init, S, S, nojit), out |-> <<>>]
      ELSE IF nojit /\ Raises(f, <<x>>)
        THEN [err |-> "ValueError", slots |-> init,
              store |-> ExcStore(dyn, fns, init, S, S, nojit), out |-> <<>>]
      ELSE [err |-> "ok", slots |-> ReadAll(R.store, dyn),
            store |-> IF nojit THEN R.store ELSE TracedStore(dyn, fns, S),
            out |-> R.out]

\* The callable make_cond returns, called on pred and x. Without dyn_vars it
\* is lax.cond on the branches as given, with no handler around it.
make_cond_call(dyn, pred, true_fun, false_fun, S, x, nojit) ==
  LET old_values == ReadAll(S, dyn)
      r == lax_cond(dyn, pred, true_fun, false_fun, old_values, S, x, nojit)
      h == Handled(dyn, old_values, r.store, r.err, TRUE)
  IN  IF Len(dyn) = 0 THEN [store |-> r.store, out |-> r.out, res |-> r.err]
      ELSE IF r.err # "ok" THEN [store |-> h.store, out |-> <<>>, res |-> h.res]
      ELSE [store |-> ZipAssign(r.store, dyn, r.slots), out |-> r.out, res |-> "ok"]

\* A built callable is called while each Variable holds small numbers or a
\* tracer an earlier call left in it.
Bounded(S) ==
  \A v \in ObjIds : S[v] = Tracer \/ \A i \in DOMAIN S[v] : S[v][i] \in 0 .. MaxVal
CanCallBuilt == Idle /\ SameShapes /\ Bounded(Store(obj))
CallBuilt(c) ==
  /\ CanCallBuilt
  /\ call' = c
  /\ UNCHANGED <<libVars, ctxStack, obj, last, disable_jit, stack_cache>>

MakeLoopCall(f, dyn_vars, has_return, xs) ==
  [IdleCall EXCEPT !.op = "make_loop", !.pc = "called", !.fns = <<f>>, !.dyn = dyn_vars,
                   !.has_return = has_return, !.xs = xs]
MakeWhileCall(body_fun, cond_fun, dyn_vars, x) ==
  [IdleCall EXCEPT !.op = "make_while", !.pc = "called", !.fns = <<body_fun, cond_fun>>,
                   !.dyn = dyn_vars, !.args = <<x>>]
MakeCondCall(pred, true_fun, false_fun, dyn_vars, x) ==
  [IdleCall EXCEPT !.op = "make_cond", !.pc = "called", !.fns = <<true_fun, false_fun>>,
                   !.dyn = dyn_vars, !.conds = [seq |-> FALSE, v |-> <<pred>>],
                   !.args = <<x>>]

\* The callable reads the dyn_vars: the list handed to the primitive.
BuiltBegin ==
  /\ call.op \in {"make_loop", "make_while", "make_cond"} /\ call.pc = "called"
  /\ call' = [call EXCEPT !.pc = IF call.op = "make_while" THEN "test" ELSE "run",
                          !.jit = ~disable_jit, !.pre = Store(obj),
                          !.slots = ReadAll(Store(obj), call.dyn)]
  /\ UNCHANGED <<libVars, ctxStack, obj, last, disable_jit, stack_cache>>

\* The exception the primitive raises at the step the call is at ("ok": none).
PrimitiveErr ==
  CASE call.op = "make_loop" ->
         IF Leaked(call.dyn, call.fns, call.pre) THEN "UnexpectedTracerError"
         ELSE IF call.i < Len(call.xs) /\ ~call.jit /\ Raises(call.fns[1], <<call.xs[call.i + 1]>>)
           THEN "ValueError"
         ELSE "ok"
    [] call.op = "make_while" ->
         IF Leaked(call.dyn, call.fns, call.pre) THEN "UnexpectedTracerError"
         ELSE IF call.pc = "body" /\ ~call.jit /\ Raises(call.fns[1], call.args)
           THEN "ValueError"
         ELSE "ok"
    [] OTHER ->
         lax_cond(call.dyn, call.conds.v[1], call.fns[1], call.fns[2], call.slots,
                  Store(obj), call.args[1], ~call.jit).err

\* The primitive raises: the handlers of the callable run and the call ends.
\* make_loop with has_return catches UnexpectedTracerError alone.
BuiltRaise ==
  /\ call.op \in {"make_loop", "make_while"} /\ call.pc \in {"run", "test", "body"}
  /\ PrimitiveErr # "ok"
  /\ LET h == Handled(call.dyn, ReadAll(call.pre, call.dyn),
                      ExcStore(call.dyn, call.fns, call.slots, Store(obj), call.pre, ~call.jit),
                      PrimitiveErr, ~call.has_return)
     IN  Return(PutStore(obj, h.store), Ret(call.op, <<>>, h.res))
  /\ UNCHANGED stack_cache

\* One step of lax.scan in the callable of make_loop. Traced, the Variables
\* outside dyn_vars are read as they were at the call.
MakeLoopStep ==
  /\ call.op = "make_loop" /\ call.pc = "run" /\ call.i < Len(call.xs)
  /\ PrimitiveErr = "ok"
  /\ LET r == fun2scanSlots(call.dyn, call.fns[1], call.slots,
                            IF call.jit THEN call.pre ELSE Store(obj), call.xs[call.i + 1])
     IN  /\ call' = [call EXCEPT !.slots = r.slots, !.i = @ + 1, !.outs = Append(@, r.out)]
         /\ obj' = PutStore(obj, IF call.jit THEN TracedStore(call.dyn, call.fns, call.pre)
                                 ELSE r.store)
  /\ UNCHANGED <<libVars, ctxStack, last, disable_jit, stack_cache>>

\* for v, d in zip(dyn_vars, dyn_values): v._value = d, and the results.
MakeLoopEnd ==
  /\ call.op = "make_loop" /\ call.pc = "run" /\ call.i = Len(call.xs)
  /\ PrimitiveErr = "ok"
  /\ Return(PutStore(obj, ZipAssign(Store(obj), call.dyn, call.slots)),
            Ret("make_loop", IF call.has_return THEN call.outs ELSE <<>>, "ok"))
  /\ UNCHANGED stack_cache

\* lax.while_loop in the callable of make_while: _cond_fun on the carried list.
MakeWhileTest ==
  /\ call.op = "make_while" /\ call.pc = "test"
  /\ PrimitiveErr = "ok"
  /\ LET t == while_cond_funSlots(call.dyn, call.fns[2], call.slots,
                                  IF call.jit THEN call.pre ELSE Store(obj), call.args[1])
     IN  /\ call' = [call EXCEPT !.pc = IF t.r THEN "body" ELSE "exit", !.tests = @ + 1]
         /\ obj' = PutStore(obj, IF call.jit THEN TracedStore(call.dyn, call.fns, call.pre)
                                 ELSE t.store)
  /\ UNCHANGED <<libVars, ctxStack, last, disable_jit, stack_cache>>

MakeWhileBody ==
  /\ call.op = "make_while" /\ call.pc = "body" /\ call.i < MaxIter
  /\ PrimitiveErr = "ok"
  /\ LET r == while_body_funSlots(call.dyn, call.fns[1], call.slots,
                                  IF call.jit THEN call.pre ELSE Store(obj), call.args[1])
     IN  /\ call' = [call EXCEPT !.pc = "test", !.slots = r.slots, !.i = @ + 1]
         /\ obj' = PutStore(obj, IF call.jit THEN TracedStore(call.dyn, call.fns, call.pre)
                                 ELSE r.store)
  /\ UNCHANGED <<libVars, ctxStack, last, disable_jit, stack_cache>>

MakeWhileEnd ==
  /\ call.op = "make_while" /\ call.pc = "exit"
  /\ Return(PutStore(obj, ZipAssign(Store(obj), call.dyn, call.slots)),
            Ret("make_while", <<>>, "ok"))
  /\ UNCHANGED stack_cache

\* The callable of make_cond runs lax.cond and returns or raises.
MakeCond ==
  /\ call.op = "make_cond" /\ call.pc = "run"
  /\ LET r == make_cond_call(call.dyn, call.conds.v[1], call.fns[1], call.fns[2], Store(obj),
                             call.args[1], ~call.jit)
     IN  Return(PutStore(obj, r.store), Ret("make_cond", r.out, r.res))
  /\ UNCHANGED stack_cache

\* ------------------------------------------------- the SlowPointFinder
\* A dict is the sequence of its items (key k, value v) in insertion order; a
\* Variable is known by its identity.
Item(k, v) == [k |-> k, v |-> v]
Values(d) == {d[i].v : i \in DOMAIN d}
FVars == {"h", "r", "w"}
NoTarget == [ds |-> FALSE, vars |-> <<>>]
NoFinder ==
  [made |-> FALSE, target |-> NoTarget, included_vars |-> <<>>, excluded_vars |-> <<>>,
   found |-> FALSE, fixed_points |-> <<>>, losses |-> <<>>, selected_ids |-> <<>>,
   num_candidate |-> 0, res |-> <<>>]

\* Collector.unique(): the first item of each Variable.
RECURSIVE unique(_)
unique(d) ==
  IF d = <<>> THEN <<>>
  ELSE LET r == unique(SubSeq(d, 1, Len(d) - 1))
       IN  IF d[Len(d)].v \in Values(r) THEN r ELSE Append(r, d[Len(d)])

\* {f'_exclude_v{i}': v for i, v in enumerate(excluded_vars)}
ExcludeKey(i) == <<"_exclude_v0", "_exclude_v1", "_exclude_v2">>[i]
ExcludedDict(excluded) == [i \in DOMAIN excluded |-> Item(ExcludeKey(i), excluded[i])]

\* A faulty constructor that leaves excluded_vars as the caller gave them.
FinderExcludedAsGiven(target, included, excluded) == ExcludedDict(excluded)

\* excluded_vars of the finder: for a DynamicalSystem and given included_vars,
\* every Variable of the target that is not among them is added.
FinderExcluded(target, included, excluded) ==
  LET all_vars == unique(target.vars)
      Rest(it) == it.v \notin Values(included)
  IN  IF target.ds /\ Len(included) > 0
        THEN ExcludedDict(excluded) \o SelectSeq(all_vars, Rest)
        ELSE ExcludedDict(excluded)

\* included_vars of the finder: as given; for a DynamicalSystem without given
\* ones, all Variables of the target but the excluded ones.
FinderIncluded(target, included, excluded) ==
  LET all_vars == unique(target.vars)
      Kept(it) == it.v \notin Range(excluded)
  IN  IF target.ds /\ Len(included) = 0 THEN SelectSeq(all_vars, Kept) ELSE included

\* SlowPointFinder(f_cell, included_vars=..., excluded_vars=...), the other
\* arguments at their defaults.
NewFinder(target, included, excluded) ==
  /\ IF Len(included) > 0 /\ Len(excluded) > 0
       THEN /\ finder' = finder
            /\ last' = Op("SlowPointFinder", None, "ValueError")
       ELSE /\ finder' = [NoFinder EXCEPT !.made = TRUE, !.target = target,
                            !.included_vars = FinderIncluded(target, included, excluded),
                            !.excluded_vars = FinderExcluded(target, included, excluded)]
            /\ last' = Op("SlowPointFinder", None, "ok")
  /\ UNCHANGED <<integ, ctxStack, obj, disable_jit, stack_cache, call>>

\* ----- the search: candidates are points of one coordinate
MaxCand == 3     \* a search starts from at most this many candidates
PointVals == {0, 1, 3, 4}
Inf == 99        \* np.inf as a tolerance
\* f_eval_loss on one point, for the function under study.
f_eval_loss(x) == x % 2
\* utils.euclidean_distance_jax on points of one coordinate.
Distance(x, y) == IF x >= y THEN x - y ELSE y - x

\* jnp.where(mask)[0]: the 0-based places where mask holds, ascending.
RECURSIVE where(_)
where(mask) ==
  IF mask = <<>> THEN <<>>
  ELSE LET r == where(SubSeq(mask, 1, Len(mask) - 1))
       IN  IF mask[Len(mask)] THEN Append(r, Len(mask) - 1) ELSE r
\* a[keep_ids]
Take(a, keep_ids) == [j \in DOMAIN keep_ids |-> a[keep_ids[j] + 1]]
\* jnp.arange(n)
arange(n) == [j \in 1 .. n |-> j - 1]

FinderOp(op, res) == [op |-> op, target |-> None, res |-> res, out |-> <<>>]
FinderFrame == UNCHANGED <<integ, ctxStack, obj, disable_jit, stack_cache, call>>

\* find_fps_with_gd_method: the points the optimizer ends at (xs), their
\* losses, and all candidate indices.
find_fps_with_gd_method(xs) ==
  /\ finder.made
  /\ finder' = [finder EXCEPT !.found = TRUE, !.num_candidate = Len(xs),
                              !.res = xs,
                              !.fixed_points = xs,
                              !.losses = [j \in DOMAIN xs |-> f_eval_loss(xs[j])],
                              !.selected_ids = arange(Len(xs))]
  /\ last' = FinderOp("find_fps_with_gd_method", "ok")
  /\ FinderFrame

\* find_fps_with_opt_solver: the solver's result res (x, success; fun is the
\* loss at x); the candidates it succeeded on are kept.
find_fps_with_opt_solver(xs, success) ==
  /\ finder.made
  /\ LET valid_ids == where(success)
     IN  finder' = [finder EXCEPT !.found = TRUE, !.num_candidate = Len(xs),
                                  !.res = xs,
                                  !.fixed_points = Take(xs, valid_ids),
                                  !.losses = Take([j \in DOMAIN xs |-> f_eval_loss(xs[j])],
                                                  valid_ids),
                                  !.selected_ids = valid_ids]
  /\ last' = FinderOp("find_fps_with_opt_solver", "ok")
  /\ FinderFrame

\* The three arrays cut down to keep_ids.
Kept(keep_ids) ==
  [finder EXCEPT !.fixed_points = Take(@, keep_ids), !.losses = Take(@, keep_ids),
                 !.selected_ids = Take(@, keep_ids)]

\* A faulty filter_loss that leaves selected_ids as it was.
filter_lossKeepsIds(tolerance) ==
  /\ finder.found
  /\ LET keep_ids == where([j \in DOMAIN finder.losses |-> finder.losses[j] < tolerance])
     IN  finder' = [finder EXCEPT !.fixed_points = Take(@, keep_ids),
                                  !.losses = Take(@, keep_ids)]
  /\ last' = FinderOp("filter_loss", "ok")
  /\ FinderFrame

filter_loss(tolerance) ==
  /\ finder.found
  /\ finder' = Kept(where([j \in DOMAIN finder.losses |-> finder.losses[j] < tolerance]))
  /\ last' = FinderOp("filter_loss", "ok")
  /\ FinderFrame

\* utils.keep_unique: of points within tolerance of each other the first is
\* kept; all are kept for a tolerance <= 0 and for at most one point.
utils_keep_unique(fps, tolerance) ==
  IF tolerance <= 0 \/ Len(fps) <= 1 THEN arange(Len(fps))
  ELSE where([j \in DOMAIN fps |->
               ~\E f \in 1 .. j - 1 : Distance(fps[f], fps[j]) <= tolerance])

keep_unique(tolerance) ==
  /\ finder.found
  /\ finder' = Kept(utils_keep_unique(finder.fixed_points, tolerance))
  /\ last' = FinderOp("keep_unique", "ok")
  /\ FinderFrame

\* Points whose closest neighbour is not nearer than tolerance are dropped;
\* nothing is done for an infinite tolerance and for at most one point.
exclude_outliers(tolerance) ==
  /\ finder.found
  /\ LET fps == finder.fixed_points
         Near(j) == \E k \in DOMAIN fps : k # j /\ Distance(fps[k], fps[j]) < tolerance
     IN  finder' = IF tolerance = Inf \/ Len(fps) <= 1 THEN finder
                   ELSE Kept(where([j \in DOMAIN fps |-> Near(j)]))
  /\ last' = FinderOp("exclude_outliers", "ok")
  /\ FinderFrame

LibInit ==
  /\ integ = IntegInit
  /\ finder = NoFinder

CtlInit ==
  /\ LibInit
  /\ disable_jit = FALSE
  /\ stack_cache = [f \in BodyFns |-> NoCache]
  /\ call = IdleCall

\* ------------------------------------------------- the cell specification
\* What user code hands in. A new object starts filled with 0; a written value
\* or an operand is filled with 1 and has the shape of the value it meets with
\* at most one axis changed, removed or added.
InitTensors == {Tensor(s, d, 0) : s \in Shapes, d \in DTypes}
NearShapes(s) ==
  {s} \cup {[s EXCEPT ![i] = d] : i \in DOMAIN s, d \in Dims}
      \cup {DropAxis(s, i - 1) : i \in DOMAIN s}
      \cup (IF Len(s) < MaxRank
              THEN {Append(s, d) : d \in Dims} \cup {<<d>> \o s : d \in Dims}
              ELSE {})
InputsFor(id) ==
  IF ~Live(obj[id]) \/ (obj[id].cls = "VariableView" /\ ~CanSlice(obj[obj[id].origin].value))
    THEN {}
    ELSE {Tensor(s, d, 1) : s \in NearShapes(ValueOf(obj, id).shape), d \in DTypes}
BatchAxes == {NoBatch} \cup {<<k>> : k \in 0 .. MaxRank}

InitCell ==
  /\ ctxStack = <<>>
  /\ obj = [i \in ObjIds |-> Free]
  /\ last = NoOp
  /\ CtlInit

NextCell ==
  \/ Len(ctxStack) < MaxCtxDepth /\ \E name \in Tags : add_context(name)
  \/ \E name \in Tags \cup {None} : del_context(name)
  \/ \E t \in InitTensors : NewArray("a", t)
  \/ \E t \in InitTensors, k \in BatchAxes : NewVariable("a", "Variable", t, k)
  \/ \E id \in ObjIds : \E w \in InputsFor(id) : Update(id, w)
  \/ \E id \in ObjIds : \E oc \in InputsFor(id) : IMul(id, oc)
  \/ \E id \in ObjIds, k \in BatchAxes : SetBatchAxis(id, k)
  \/ \E id \in ObjIds, k \in Dims : SetBatchSize(id, <<k>>)

SpecCell == InitCell /\ [][NextCell]_cellVars

\* ------------------------------------------ the construction specification
\* A Variable is made from a plain value, and a second one from the first,
\* each with any batch_axis or none.
PlainClasses == VarClasses \ {"VariableView"}

NextNew ==
  \/ \E t \in InitTensors, k \in BatchAxes, cls \in PlainClasses : NewVariable("a", cls, t, k)
  \/ \E k \in BatchAxes, cls \in PlainClasses : NewVariableOf("b", cls, "a", k)

SpecNew == InitCell /\ [][NextNew]_cellVars

\* ------------------------------------------ the integrators specification
\* User code sets and asks for the default methods through the deprecated
\* wrappers, in any order.
NextInteg ==
  \/ \E method \in OdeMethods : set_default_odeint(method)
  \/ get_default_odeint
  \/ \E method \in SdeMethods : set_default_sdeint(method)
  \/ get_default_sdeint

SpecInteg == InitCell /\ [][NextInteg]_vars

\* ------------------------------------------ the finder-construction specification
\* Finders are made of a function, and of DynamicalSystems whose Variables are
\* none; h; h and r; h, r and w; h, r and h again under a second name.
\* included_vars and excluded_vars name Variables of the target or others,
\* once or twice.
Targets ==
  {NoTarget,
   [ds |-> TRUE, vars |-> <<>>],
   [ds |-> TRUE, vars |-> <<Item("h", "h")>>],
   [ds |-> TRUE, vars |-> <<Item("h", "h"), Item("r", "r")>>],
   [ds |-> TRUE, vars |-> <<Item("h", "h"), Item("r", "r"), Item("w", "w")>>],
   [ds |-> TRUE, vars |-> <<Item("h", "h"), Item("r", "r"), Item("h2", "h")>>]}
IncludedArgs ==
  {<<>>, <<Item("x", "h")>>, <<Item("x", "w")>>, <<Item("x", "h"), Item("y", "r")>>,
   <<Item("x", "h"), Item("y", "h")>>, <<Item("x", "r"), Item("y", "w")>>}
ExcludedArgs == {<<>>, <<"h">>, <<"w">>, <<"h", "r">>, <<"h", "h">>, <<"r", "w">>}

NextFinder ==
  \E target \in Targets, included \in IncludedArgs, excluded \in ExcludedArgs :
    NewFinder(target, included, excluded)

SpecFinder == InitCell /\ [][NextFinder]_vars

\* ------------------------------------------ the search specification
\* A finder on a function; searches from 1..MaxCand candidates, by either
\* method, each followed by filters in any order and number.
Candidates == UNION {[1 .. n -> PointVals] : n \in 1 .. MaxCand}

NextFps ==
  \/ ~finder.made /\ NewFinder(NoTarget, <<>>, <<>>)
  \/ \E xs \in Candidates : find_fps_with_gd_method(xs)
  \/ \E xs \in Candidates : \E success \in [DOMAIN xs -> BOOLEAN] :
       find_fps_with_opt_solver(xs, success)
  \/ \E tolerance \in {1, 2} : filter_loss(tolerance)
  \/ \E tolerance \in {0, 1, 2} : keep_unique(tolerance)
  \/ \E tolerance \in {1, 2, Inf} : exclude_outliers(tolerance)

SpecFps == InitCell /\ [][NextFps]_vars

\* ------------------------------------------ the nested-regions specification
\* Trace regions are entered and left to any depth up to MaxNest, in and out of
\* order, and an Array is made at some point of it.
NextCtx ==
  \/ Len(ctxStack) < MaxNest /\ \E name \in Tags : add_context(name)
  \/ \E name \in Tags \cup {None} : del_context(name)
  \/ \E t \in InitTensors : NewArray("a", t)

SpecCtx == InitCell /\ [][NextCtx]_cellVars

\* ------------------------------------------------- the view specification
\* A Variable, TrainVar or Parameter made earlier, in any region or none; views
\* are taken of it and written through, inside and outside regions.
InitView ==
  /\ ctxStack = <<>>
  /\ \E t \in InitTensors, k \in BatchAxes, c \in Tags \cup {None},
          cls \in VarClasses \ {"VariableView"} :
       /\ ~VariableInitRaises(t, k)
       /\ Len(t.shape) >= 1 /\ t.dtype = "float32"
       /\ obj = [i \in ObjIds |->
                  IF i = "a"
                    THEN [cls |-> cls, value |-> t, ctx |-> c, batch_axis |-> k,
                          origin |-> None, index |-> 0]
                    ELSE Free]
  /\ last = NoOp
  /\ CtlInit

NextView ==
  \/ Len(ctxStack) < MaxCtxDepth /\ \E name \in Tags : add_context(name)
  \/ \E name \in Tags \cup {None} : del_context(name)
  \/ \E n \in Dims : NewView("b", "a", n)
  \/ \E id \in ObjIds : \E w \in InputsFor(id) : Update(id, w)

SpecView == InitView /\ [][NextView]_cellVars

\* ------------------------------------------ the control-flow specification
\* Two Variables as in the examples of controls.py: a = zeros, b = ones. User
\* code calls the four combinators on them, with jit enabled or disabled.
Operands == {1, 2}
CondFns == {"true_f", "false_f", "add_x", "read_b"}
Branches == <<"k1", "k2", "k3", "k4", "k5">>
BoolSeqs(n) == [1 .. n -> BOOLEAN]
ConditionInputs ==
  {[seq |-> FALSE, v |-> <<p>>] : p \in BOOLEAN}
    \cup {[seq |-> TRUE, v |-> v] : v \in UNION {BoolSeqs(n) : n \in 0 .. MaxConds}}
ForOperands == {[i \in 1 .. n |-> lo + i - 1] : lo \in Operands, n \in 1 .. MaxLen}

Init ==
  /\ ctxStack = <<>>
  /\ obj = [i \in ObjIds |->
             [cls |-> "Variable",
              value |-> Tensor(<<MaxDim>>, "float32", IF i = "a" THEN 0 ELSE 1),
              ctx |-> None, batch_axis |-> IF i = "a" THEN <<0>> ELSE NoBatch,
              origin |-> None, index |-> 0]]
  /\ last = NoOp
  /\ LibInit
  /\ disable_jit \in BOOLEAN
  /\ stack_cache = [f \in BodyFns |-> NoCache]
  /\ call = IdleCall

Next ==
  \/ /\ CanCall
     /\ \E pred \in BOOLEAN, tf \in CondFns, ff \in CondFns, x \in Operands :
          /\ Len(UserFn(tf).ret) = Len(UserFn(ff).ret)
          /\ CallCond(pred, tf, ff, x)
  \/ Cond
  \/ /\ CanCall
     /\ \E c \in ConditionInputs, d \in 0 .. 2 :
          /\ Len(c.v) + d \in 1 .. Len(Branches)
          /\ CallIfelse(c, SubSeq(Branches, 1, Len(c.v) + d), Scalar(1))
  \/ Ifelse
  \/ /\ CanCall
     /\ \E f \in ForBodies, xs \in ForOperands, reverse \in BOOLEAN, jit \in BOOLEAN :
          CallForLoop(f, xs, reverse, jit)
  \/ ForLoopBegin
  \/ ForLoopStep
  \/ ForLoopEnd
  \/ /\ CanCall
     /\ \E cond_fun \in {"cond", "cond_a"}, x \in Operands, y \in Operands :
          CallWhileLoop("body2", cond_fun, <<x, y>>)
  \/ WhileLoopBegin
  \/ WhileLoopTest
  \/ WhileLoopBody
  \/ WhileLoopEnd
  \/ Idle /\ \E id \in ObjIds, k \in BatchAxes : SetBatchAxis(id, k)
  \/ Idle /\ \E id \in ObjIds, k \in Dims : SetBatchSize(id, <<k>>)
  \/ Idle /\ \E id \in ObjIds : \E w \in InputsFor(id) : Update(id, w)

Spec == Init /\ [][Next]_vars

\* --------------------------------------------- the while_loop specification
\* while_loop on bodies that return None (inc2, no operand), one value (step),
\* a 1-tuple (step_t) and a pair (body2), between writes to the Variables.
WhileCalls ==
  {<<"inc2", "cond_v", <<>>>>}
    \cup {<<f, "cond_v", <<x>>>> : f \in {"step", "step_t"}, x \in Operands}
    \cup {<<"body2", c, <<x, y>>>> : c \in {"cond", "cond_a"}, x \in Operands, y \in Operands}

NextWhile ==
  \/ CanCall /\ \E w \in WhileCalls : CallWhileLoop(w[1], w[2], w[3])
  \/ WhileLoopBegin
  \/ WhileLoopTest
  \/ WhileLoopBody
  \/ WhileLoopEnd
  \/ Idle /\ \E id \in ObjIds : \E w \in InputsFor(id) : Update(id, w)

SpecWhile == Init /\ [][NextWhile]_vars

\* ------------------------------------------------ the builders specification
\* The callables of make_loop, make_while and make_cond built on lists of the
\* two Variables (one, both, one twice, none for make_cond) and called with
\* jit enabled or disabled, beside for_loop and while_loop; a call can leave a
\* tracer in a Variable outside its dyn_vars, which user code may overwrite
\* or not before the next call.
DynArgs == {<<"a">>, <<"a", "b">>, <<"a", "a">>}
LoopOperands == {[i \in 1 .. 2 |-> lo + i - 1] : lo \in Operands}
NextMake ==
  \/ /\ CanCallBuilt
     /\ \E f \in {"body", "body_chk"}, dyn_vars \in DynArgs, has_return \in BOOLEAN,
           xs \in LoopOperands :
          CallBuilt(MakeLoopCall(f, dyn_vars, has_return, xs))
  \/ /\ CanCallBuilt
     /\ \E body_fun \in {"body", "body_chk"}, cond_fun \in {"cond_lt", "cond_w"},
           dyn_vars \in DynArgs, x \in Operands :
          CallBuilt(MakeWhileCall(body_fun, cond_fun, dyn_vars, x))
  \/ /\ CanCallBuilt
     /\ \E pred \in BOOLEAN, tf \in {"true_f", "add_x", "body_chk"}, ff \in {"false_f", "read_b"},
           dyn_vars \in DynArgs \cup {<<>>}, x \in Operands :
          CallBuilt(MakeCondCall(pred, tf, ff, dyn_vars, x))
  \/ BuiltBegin
  \/ BuiltRaise
  \/ MakeLoopStep
  \/ MakeLoopEnd
  \/ MakeWhileTest
  \/ MakeWhileBody
  \/ MakeWhileEnd
  \/ MakeCond
  \/ /\ CanCall
     /\ \E f \in ForBodies, xs \in LoopOperands, jit \in BOOLEAN :
          CallForLoop(f, xs, FALSE, jit)
  \/ ForLoopBegin
  \/ ForLoopStep
  \/ ForLoopEnd
  \/ /\ CanCall
     /\ \E x \in Operands, cond_fun \in {"cond_lt", "cond_w"} :
          CallWhileLoop("step", cond_fun, <<x>>)
  \/ WhileLoopBegin
  \/ WhileLoopTest
  \/ WhileLoopBody
  \/ WhileLoopEnd
  \/ Idle /\ \E id \in ObjIds, d \in 0 .. MaxVal : Update(id, Tensor(<<MaxDim>>, "float32", d))

SpecMake == Init /\ [][NextMake]_vars

\* ------------------------------------------------ the for_loop specification
\* for_loop called again and again on the two Variables, with operands of any
\* length from 0 on, forward and reversed, with jit on and off; between calls
\* user code writes the Variables.
ForOperands0 == {[i \in 1 .. n |-> lo + i - 1] : lo \in Operands, n \in 0 .. MaxLen}

NextFor ==
  \/ /\ CanCall
     /\ \E f \in ForBodies, xs \in ForOperands0, reverse \in BOOLEAN, jit \in BOOLEAN :
          CallForLoop(f, xs, reverse, jit)
  \/ ForLoopBegin
  \/ ForLoopStep
  \/ ForLoopEnd
  \/ Idle /\ \E id \in ObjIds : \E w \in InputsFor(id) : Update(id, w)

SpecFor == Init /\ [][NextFor]_vars

\* ------------------------------------------ the stale-cache specification
\* for_loop called again and again on grow, whose flag user code turns on and
\* off between calls, with jit on and off.
GrowOperands == {[i \in 1 .. n |-> lo + i - 1] : lo \in Operands, n \in 1 .. 2}

NextStale ==
  \/ /\ CanCall
     /\ \E f \in {"grow0", "grow1"}, xs \in GrowOperands, jit \in BOOLEAN :
          CallForLoop(f, xs, FALSE, jit)
  \/ ForLoopBegin
  \/ ForLoopStep
  \/ ForLoopEnd
  \/ Idle /\ \E id \in ObjIds : \E w \in InputsFor(id) : Update(id, w)

SpecStale == Init /\ [][NextStale]_vars

\* ------------------------------------------ the call-forms specification
\* The four combinators called in the other forms their signatures allow:
\* with the deprecated dyn_vars and child_objs arguments; ifelse with operands
\* that are one value x, the tuples (), (x,), (x, y) and the nested ((x, y),),
\* on branches of one parameter (k), of two (p) and of any number (v).
OperandForms ==
  {Scalar(1), Tuple(<<>>), Tuple(<<Scalar(1)>>), Tuple(<<Scalar(1), Scalar(2)>>),
   Tuple(<<Tuple(<<Scalar(1), Scalar(2)>>)>>)}
BranchFamilies == {<<"k1", "k2", "k3", "k4", "k5">>, <<"p1", "p2", "p3", "p1", "p2">>,
                   <<"v1", "v2", "v3", "v1", "v2">>}
MaxNesting == 3   \* conditions in an ifelse call of this specification
LegacyArgs ==
  {[dyn_vars |-> d, child_objs |-> c] :
     d \in {<<>>, <<"b">>, <<"b", "a">>}, c \in {<<>>, <<"b">>}}

NextArgs ==
  \/ /\ CanCall
     /\ \E pred \in BOOLEAN, tf \in CondFns, ff \in CondFns, g \in LegacyArgs :
          /\ OutTree(tf) = OutTree(ff)
          /\ Invoke([CondCall(pred, tf, ff, 1) EXCEPT !.given = g])
  \/ Cond
  \/ /\ CanCall
     /\ \E c \in ConditionInputs, g \in LegacyArgs :
          /\ Len(c.v) \in 1 .. Len(Branches) - 1
          /\ Invoke([IfelseCall(c, SubSeq(Branches, 1, Len(c.v) + 1), Scalar(1))
                       EXCEPT !.given = g])
  \/ /\ CanCall
     /\ \E n \in 1 .. MaxNesting, fam \in BranchFamilies, o \in OperandForms :
          \E v \in BoolSeqs(n) :
            Invoke(IfelseCall([seq |-> TRUE, v |-> v], SubSeq(fam, 1, n + 1), o))
  \/ Ifelse
  \/ /\ CanCall
     /\ \E f \in ForBodies, xs \in ForOperands, jit \in BOOLEAN, g \in LegacyArgs :
          Invoke([ForLoopCall(f, xs, FALSE, jit) EXCEPT !.given = g])
  \/ ForLoopBegin
  \/ ForLoopStep
  \/ ForLoopEnd
  \/ /\ CanCall
     /\ \E cond_fun \in {"cond", "cond_a"}, x \in Operands, g \in LegacyArgs :
          Invoke([WhileLoopCall("body2", cond_fun, <<x, 1>>) EXCEPT !.given = g])
  \/ WhileLoopBegin
  \/ WhileLoopTest
  \/ WhileLoopBody
  \/ WhileLoopEnd

SpecArgs == Init /\ [][NextArgs]_vars

\* ------------------------------------------- the failing-call specification
\* The same two Variables; user code also makes calls that fail: cond with
\* branches whose results differ in structure, for_loop with jit=False on a
\* body that raises on some slice, while_loop with a body that returns one
\* value for two operands.
NextErr ==
  \/ /\ CanCall
     /\ \E pred \in BOOLEAN, tf \in CondFns, ff \in CondFns, x \in Operands :
          CallCond(pred, tf, ff, x)
  \/ Cond
  \/ /\ CanCall
     /\ \E f \in ForBodies, xs \in ForOperands, reverse \in BOOLEAN, jit \in BOOLEAN :
          CallForLoop(f, xs, reverse, jit)
  \/ /\ CanCall
     /\ \E xs \in ForOperands, reverse \in BOOLEAN : CallForLoop("body_chk", xs, reverse, FALSE)
  \/ ForLoopBegin
  \/ ForLoopStep
  \/ ForLoopEnd
  \/ /\ CanCall
     /\ \E body_fun \in {"body2", "body1"}, cond_fun \in {"cond", "cond_a"},
           x \in Operands, y \in Operands :
          CallWhileLoop(body_fun, cond_fun, <<x, y>>)
  \/ WhileLoopBegin
  \/ WhileLoopTest
  \/ WhileLoopBody
  \/ WhileLoopEnd

SpecErr == Init /\ [][NextErr]_vars

\* ================================================================ claims
\* The shapes s and t differ on an axis other than k: an axis that one of them
\* lacks, or on which their lengths differ (k = <<>>: on any axis).
DiffersOffBatch(s, t, k) ==
  \E i \in 0 .. Max2(Len(s), Len(t)) - 1 :
    /\ k = NoBatch \/ i # k[1]
    /\ i >= Len(s) \/ i >= Len(t) \/ s[i + 1] # t[i + 1]

Rejected(res) == res \in {"MathError:shape", "MathError:dtype"}

\* C6: a write (update, value setter, in-place operator) to an Array or a
\* Variable whose new value differs from the stored one in shape (Variable: on
\* a non-batch axis) or in dtype raises MathError and leaves every object as it
\* was; and no step changes a live object's dtype or its shape off the batch axis.
C6_WriteKeepsShapeAndDtype ==
  [][/\ last'.op = "update" =>
          \A w \in InputsFor(last'.target) :
            (/\ \/ w.dtype # ValueOf(obj, last'.target).dtype
                \/ DiffersOffBatch(w.shape, ValueOf(obj, last'.target).shape,
                                   obj[last'.target].batch_axis)
             /\ Update(last'.target, w))
            => (Rejected(last'.res) /\ obj' = obj)
     /\ last'.op = "imul" =>
          \A oc \in InputsFor(last'.target) :
            (/\ Broadcastable(ValueOf(obj, last'.target).shape, oc.shape)
             /\ \/ Promote(ValueOf(obj, last'.target).dtype, oc.dtype)
                     # ValueOf(obj, last'.target).dtype
                \/ DiffersOffBatch(BroadcastShape(ValueOf(obj, last'.target).shape, oc.shape),
                                   ValueOf(obj, last'.target).shape,
                                   obj[last'.target].batch_axis)
             /\ IMul(last'.target, oc))
            => (Rejected(last'.res) /\ obj' = obj)
     /\ \A id \in ObjIds : Live(obj[id]) =>
          /\ obj'[id].value.dtype = obj[id].value.dtype
          /\ ~DiffersOffBatch(obj'[id].value.shape, obj[id].value.shape, obj[id].batch_axis)
    ]_cellVars

\* A Variable with a batch axis that took a write (its contents are 1) and then
\* refused one for its dtype.
C6_Witness ==
  /\ last.op \in {"update", "imul"} /\ last.res = "MathError:dtype"
  /\ obj["a"].cls = "Variable" /\ obj["a"].batch_axis # NoBatch
  /\ obj["a"].value.data[1] = 1

\* C7: a write to an Array while a region is active that is not the region the
\* Array was made in (or the Array was made in none) is rejected.
C7_ContextMismatchRejected ==
  (/\ last.op \in {"update", "imul"}
   /\ obj[last.target].cls = "Array"
   /\ Len(ctxStack) > 0
   /\ obj[last.target].ctx # get_context)
  => last.res # "ok"

\* C8: a write to a Variable or a view of one with the shape and dtype of its
\* current value succeeds and is stored, whatever regions were active when the
\* object was made and are active now.
C8_VariableExemptFromContext ==
  [][(last'.op = "update" /\ IsVar(obj[last'.target])) =>
       \A w \in InputsFor(last'.target) :
         (/\ w.shape = ValueOf(obj, last'.target).shape
          /\ w.dtype = ValueOf(obj, last'.target).dtype
          /\ Update(last'.target, w))
         => (last'.res = "ok" /\ ValueOf(obj', last'.target) = w)
    ]_cellVars

\* A view made in one region and written, successfully, in another.
C8_Witness ==
  /\ last.op = "update" /\ last.res = "ok" /\ last.target = "b"
  /\ obj["b"].cls = "VariableView"
  /\ obj["b"].ctx # None
  /\ Len(ctxStack) > 0 /\ obj["b"].ctx # get_context
  /\ obj["a"].ctx # obj["b"].ctx
  /\ obj["a"].value.data[1] = 1

\* C10: a write to a Variable (a view of one included) with batch axis k
\* succeeds and is stored when its dtype matches and its shape agrees with the
\* current shape on every axis other than k, and is refused, changing nothing,
\* when the shape differs on another axis (k None: on any axis).
C10_BatchAxisShapeRule ==
  [][(last'.op = "update" /\ IsVar(obj[last'.target])) =>
       \A w \in InputsFor(last'.target) :
         Update(last'.target, w) =>
           IF DiffersOffBatch(w.shape, ValueOf(obj, last'.target).shape,
                              obj[last'.target].batch_axis)
             THEN last'.res # "ok" /\ obj' = obj
             ELSE w.dtype = ValueOf(obj, last'.target).dtype
                    => (last'.res = "ok" /\ ValueOf(obj', last'.target).data = w.data)
    ]_cellVars

\* ------------------------------------------------------ the combinators
Filled(d) == Fill(<<MaxDim>>, d)
NumConds(c) == IF c.seq THEN Len(c.v) ELSE 1

\* C1: cond leaves every Variable at the value that running the selected
\* branch alone on the pre-call values produces, returns what that branch
\* returns, and leaves a Variable the selected branch does not write as it was;
\* nothing the other branch writes shows. This holds at every cond call of
\* every sequence of calls.
C1_CondRunsSelectedBranchOnly ==
  [][(call.op = "cond" /\ call.pc = "called" /\ call'.pc = "idle") =>
       LET sel == IF call.conds.v[1] THEN call.fns[1] ELSE call.fns[2]
           R == RunFn(sel, Store(obj), call.args)
       IN  /\ last'.op = "cond" /\ last'.res = "ok" /\ last'.out = R.out
           /\ Store(obj') = R.store
           /\ \A v \in ObjIds \ Writes(sel) : Store(obj')[v] = Store(obj)[v]
    ]_vars

\* The example: from a = 0, b = 1, cond(True) and then cond(False) with jit on.
C1_Witness ==
  /\ last.op = "cond" /\ ~disable_jit
  /\ Store(obj)["a"] = Filled(1) /\ Store(obj)["b"] = Filled(0)

\* body_fn applied to the slices in order, each step on the Variable values the
\* step before left: the values left and the outputs, one per slice.
RECURSIVE InOrder(_, _, _)
InOrder(f, S, xs) ==
  IF xs = <<>> THEN [store |-> S, outs |-> <<>>]
  ELSE LET R == RunFn(f, S, <<Head(xs)>>)
           rest == InOrder(f, R.store, Tail(xs))
       IN  [store |-> rest.store, outs |-> <<R.out>> \o rest.outs]

\* C2: a forward for_loop over N slices: after i steps the carried Variable
\* values and the outputs are those of running body_fn on slices 0..i-1 in
\* order; the call returns the outputs of all N steps, output i at index i, and
\* leaves every Variable at the value step N-1 left.
C2_ForLoopRunsSlicesInOrder ==
  [][/\ (call'.op = "for_loop" /\ call'.pc = "scan" /\ ~call'.reverse) =>
          LET ref == InOrder(call'.fns[1], call'.pre, SubSeq(call'.xs, 1, call'.i))
          IN  /\ call'.outs = ref.outs
              /\ \A v \in Range(call'.dyn) : call'.carry[v] = ref.store[v]
              /\ ~call'.jit => Store(obj') = ref.store
     /\ (call.op = "for_loop" /\ call.pc = "scan" /\ call'.pc = "idle" /\ ~call.reverse) =>
          LET ref == InOrder(call.fns[1], call.pre, call.xs)
          IN  /\ last'.op = "for_loop" /\ last'.res = "ok" /\ last'.out = ref.outs
              /\ Len(last'.out) = Len(call.xs)
              /\ Store(obj') = ref.store
    ]_vars

\* The example: a = 0, body "a += x; return a" over [1, 2, 3, 4] gives
\* [[1], [3], [6], [10]] and a = 10; b, which the body leaves alone, is still 1.
C2_Witness ==
  /\ last.op = "for_loop"
  /\ last.out = <<<<Filled(1)>>, <<Filled(3)>>, <<Filled(6)>>, <<Filled(10)>>>>
  /\ Store(obj)["a"] = Filled(10) /\ Store(obj)["b"] = Filled(1)
  /\ stack_cache["add_x"].has /\ ~stack_cache["body"].has

\* body_fn run n times from S and the operands ops, each run on what the run
\* before left and returned.
RECURSIVE Iterate(_, _, _, _)
Iterate(f, S, ops, n) ==
  IF n = 0 THEN [store |-> S, opnds |-> ops]
  ELSE LET R == RunFn(f, S, ops)
       IN  Iterate(f, R.store, [j \in DOMAIN R.out |-> R.out[j][1]], n - 1)

\* C3: in a while_loop call the operands and the carried Variables are, after
\* i body runs, what i runs of body_fn in sequence give; cond_fn is evaluated
\* on them before each run, there is one body run for every cond_fn that was
\* true and none after one that was false; the call returns the operands on
\* which cond_fn was first false and leaves the Variables as the last body run
\* left them.
C3_WhileLoopTestsThenRuns ==
  [][/\ (call'.op = "while_loop" /\ call'.pc \in {"test", "body", "exit"}) =>
          LET it == Iterate(call'.fns[1], call'.pre, call'.args, call'.i)
              holds == RunFn(call'.fns[2], it.store, it.opnds).out[1][1] = 1
          IN  /\ call'.opnds = it.opnds
              /\ \A v \in Range(call'.dyn) : call'.carry[v] = it.store[v]
              /\ call'.pc = "test" => call'.tests = call'.i
              /\ call'.pc = "body" => (call'.tests = call'.i + 1 /\ holds)
              /\ call'.pc = "exit" => (call'.tests = call'.i + 1 /\ ~holds)
     /\ (call.op = "while_loop" /\ call.pc = "exit" /\ call'.pc = "idle") =>
          LET it == Iterate(call.fns[1], call.pre, call.args, call.i)
          IN  /\ last'.op = "while_loop" /\ last'.res = "ok"
              /\ last'.out = [j \in DOMAIN it.opnds |-> <<it.opnds[j]>>]
              /\ \A v \in ObjIds :
                   (v \in Range(call.dyn) \/ Writes(call.fns[2]) = {})
                     => Store(obj')[v] = it.store[v]
    ]_vars

\* The example: a = 0, b = 1, cond x < 6, operands (1, 1) with jit on returns
\* (10, 4) after three body runs.
C3_Witness ==
  /\ last.op = "while_loop" /\ ~disable_jit
  /\ last.out = <<<<10>>, <<4>>>>
  /\ Store(obj)["a"] = Filled(7) /\ Store(obj)["b"] = Filled(6)

\* C4: with n >= 1 conditions and n + 1 branches ifelse returns what the branch
\* of the first true condition returns (the last branch when none is true) and
\* leaves the Variables as running that branch alone leaves them.
C4_IfelseTakesFirstTrue ==
  [][(/\ call.op = "ifelse" /\ call.pc = "called" /\ call'.pc = "idle"
      /\ NumConds(call.conds) >= 1
      /\ Len(call.fns) = NumConds(call.conds) + 1) =>
       LET n == NumConds(call.conds)
           i == IF \E k \in 1 .. n : call.conds.v[k]
                  THEN CHOOSE k \in 1 .. n :
                         call.conds.v[k] /\ \A m \in 1 .. k - 1 : ~call.conds.v[m]
                  ELSE n + 1
           R == RunFn(call.fns[i], Store(obj), call.args)
       IN  /\ last'.op = "ifelse" /\ last'.res = "ok" /\ last'.out = R.out
           /\ Store(obj') = R.store
    ]_vars

\* Conditions [F, F, T, T] with branches 1..5 return 3 (the example with a = 3),
\* and branch 3, which adds 3 to b, has run, with jit on.
C4_Witness ==
  /\ last.op = "ifelse" /\ last.res = "ok" /\ ~disable_jit
  /\ last.out = <<<<3>>>>
  /\ Store(obj)["b"] = Filled(4) /\ Store(obj)["a"] = Filled(0)

\* C5: when the number of branches is not the number of conditions plus one
\* (one condition when conditions is no sequence), ifelse raises ValueError and
\* no Variable is touched.
C5_IfelseArityError ==
  [][(/\ call.op = "ifelse" /\ call.pc = "called" /\ call'.pc = "idle"
      /\ Len(call.fns) # NumConds(call.conds) + 1) =>
       /\ last'.op = "ifelse" /\ last'.res = "ValueError" /\ last'.out = <<>>
       /\ obj' = obj
    ]_vars

\* An arity error after earlier calls have changed both Variables.
C5_Witness ==
  /\ last.op = "ifelse" /\ last.res = "ValueError"
  /\ Store(obj)["a"] = Filled(1) /\ Store(obj)["b"] = Filled(0)

\* C9: no step changes the batch_axis of a Variable, whether a write, a setter
\* or a step of a combinator call; a batch_axis or batch_size assignment raises
\* ValueError and changes no object.
C9_BatchAxisNeverChanges ==
  [][/\ \A id \in ObjIds : IsVar(obj[id]) => obj'[id].batch_axis = obj[id].batch_axis
     /\ (Idle /\ call' = call /\ last'.op \in {"set_batch_axis", "set_batch_size"})
          => (last'.res = "ValueError" /\ obj' = obj)
    ]_vars

\* A batch_axis assignment refused after a write changed the length of a along
\* its batch axis and for_loop ran on it.
C9_Witness ==
  /\ last.op = "set_batch_axis" /\ last.res = "ValueError" /\ last.target = "a"
  /\ obj["a"].batch_axis = <<0>>
  /\ obj["a"].value.shape # <<MaxDim>>
  /\ stack_cache["body"].has

\* ------------------------------------------------------- failing calls
\* C11: when the conditional primitive raises inside a cond call, every
\* discovered Variable holds again the value it had when the call started, and
\* the call raises the typed tracer-escape error.
C11_CondFailureRollsBack ==
  [][(call.op = "cond" /\ call.pc = "called" /\ call'.pc = "idle" /\ last'.res # "ok") =>
       /\ \A v \in Range(CondDynVars(1, <<call.conds.v[1]>>, call.fns, disable_jit)) :
            Store(obj')[v] = Store(obj)[v]
       /\ last'.res = "TracerEscape"
    ]_vars

\* C12: a for_loop or while_loop call in which body_fn or cond_fn raises leaves
\* every Variable, the discovered ones first of all, at the value it had when
\* the call started, and leaves no tracer in any Variable.
C12_LoopFailureRollsBack ==
  [][(call.op \in {"for_loop", "while_loop"} /\ call.pc \notin {"idle", "called"}
      /\ call'.pc = "idle" /\ last'.res # "ok") =>
       /\ \A v \in Range(call.dyn) : Store(obj')[v] = call.pre[v]
       /\ \A v \in ObjIds : Store(obj')[v] # Tracer
       /\ Store(obj') = call.pre
    ]_vars

\* ------------------------------------------------------------- for_loop
\* What the cache holds for body function f once a jit call has discovered
\* and cached its stack.
Cached(f) == [has |-> TRUE, stack |-> evaluate_dyn_vars(f)]
EntryUsed == IF call.cached THEN Cached(call.fns[1]) ELSE NoCache
EntryNotUsed == IF call.cached THEN NoCache ELSE Cached(call.fns[1])
ForLoopEnds == call.op = "for_loop" /\ call.pc = "scan" /\ call'.pc = "idle"

\* C13: what a for_loop call returns and leaves in the Variables is what the
\* call with the same body_fn, operands, flags and pre-call Variable values
\* returns and leaves when the stack comes the other way: from the cache
\* instead of fresh discovery, or the reverse.
C13_ForLoopSameFreshOrCached ==
  [][ForLoopEnds =>
       LET other == for_loop(EntryNotUsed, call.fns[1], call.xs, call.reverse, call.jit,
                             call.pre)
       IN  /\ call.cached => get_stack_cache(call.fns[1]) = Cached(call.fns[1])
           /\ last'.res = other.err /\ last'.out = other.out
           /\ Store(obj') = other.store
    ]_vars

\* A call with jit on that took its stack from the cache has run its last step:
\* from a = 1, body "a += x; return a" over [1, 2] has carried a to 4.
C13_Witness ==
  /\ call.op = "for_loop" /\ call.pc = "scan" /\ call.i = Len(call.xs)
  /\ call.cached /\ call.jit /\ ~call.reverse
  /\ call.fns = <<"add_x">> /\ call.xs = <<1, 2>>
  /\ call.pre["a"] = Filled(1) /\ call.carry["a"] = Filled(4)
  /\ call.outs = <<<<Filled(2)>>, <<Filled(4)>>>>

\* The Variable values body_fn meets in the step about to be taken: the
\* dyn_vars hold the carry, the others what they held at the call (jit on) or
\* hold now (jit off).
StepStore ==
  [v \in ObjIds |-> IF v \in Range(call.dyn) THEN call.carry[v]
                    ELSE IF call.jit THEN call.pre[v] ELSE Store(obj)[v]]

\* C15: a for_loop call with reverse=True consumes the slices from the last to
\* the first, and returns and leaves what reversing the operands, running
\* forward and reversing the outputs does: the output of the step that consumed
\* slice i is at index i.
C15_ReverseIsReversedForward ==
  [][/\ (call.op = "for_loop" /\ call.pc = "scan" /\ call'.pc = "scan" /\ call.reverse) =>
          /\ call'.i = call.i + 1
          /\ call'.outs[call'.i] =
               RunFn(call.fns[1], StepStore, <<call.xs[Len(call.xs) - call.i]>>).out
     /\ (ForLoopEnds /\ call.reverse) =>
          LET fwd == for_loop(EntryUsed, call.fns[1], Reverse(call.xs), FALSE, call.jit,
                              call.pre)
          IN  /\ last'.res = fwd.err /\ last'.out = Reverse(fwd.out)
              /\ Store(obj') = fwd.store
              /\ \A i \in 1 .. Len(call.xs) :
                   last'.res = "ok" => last'.out[i] = call.outs[Len(call.xs) + 1 - i]
    ]_vars

\* A reversed call over [1, 2, 3] from a = 0 has returned [[6], [5], [3]]: slice
\* 3 went first.
C15_Witness ==
  /\ last.op = "for_loop" /\ last.res = "ok"
  /\ last.out = <<<<Filled(6)>>, <<Filled(5)>>, <<Filled(3)>>>>
  /\ Store(obj)["a"] = Filled(6) /\ Store(obj)["b"] = Filled(1)

\* The Variables body function f reads or writes.
Touched(f) == Range(evaluate_dyn_vars(f))

Deprecated(c) == c.given # NoLegacy
\* The branch an ifelse call selects: that of the first true condition, else
\* the last.
FirstTrue(c) ==
  IF \E k \in 1 .. NumConds(c) : c.v[k]
    THEN CHOOSE k \in 1 .. NumConds(c) : c.v[k] /\ \A m \in 1 .. k - 1 : ~c.v[m]
    ELSE NumConds(c) + 1

\* C14: a cond, ifelse, for_loop or while_loop call that is handed the
\* deprecated dyn_vars or child_objs threads the Variables discovery finds
\* (the cached stack in for_loop), not the ones handed in, and returns and
\* leaves in the Variables what the call does by its meaning: the selected
\* branch alone, the slices in order, the body repeated while the condition holds.
C14_DeprecatedArgumentsIgnored ==
  [][/\ (Deprecated(call) /\ call.op = "cond" /\ call'.pc = "idle") =>
          LET R == RunFn(IF call.conds.v[1] THEN call.fns[1] ELSE call.fns[2],
                         Store(obj), call.args)
          IN  last'.res = "ok" /\ last'.out = R.out /\ Store(obj') = R.store
     /\ (Deprecated(call) /\ call.op = "ifelse" /\ call'.pc = "idle") =>
          LET R == RunFn(call.fns[FirstTrue(call.conds)], Store(obj), call.args)
          IN  last'.res = "ok" /\ last'.out = R.out /\ Store(obj') = R.store
     /\ (Deprecated(call) /\ call.op = "for_loop" /\ call.pc = "called") =>
          call'.dyn = IF get_stack_cache(call.fns[1]).has \/ call.jit
                        THEN evaluate_dyn_vars(call.fns[1]) ELSE <<>>
     /\ (Deprecated(call) /\ ForLoopEnds) =>
          LET ref == InOrder(call.fns[1], call.pre, call.xs)
          IN  last'.res = "ok" /\ last'.out = ref.outs /\ Store(obj') = ref.store
     /\ (Deprecated(call) /\ call.op = "while_loop" /\ call.pc = "called") =>
          call'.dyn = IF disable_jit THEN <<>>
                      ELSE StackUnion(evaluate_dyn_vars(call.fns[1]),
                                      evaluate_dyn_vars(call.fns[2]))
     /\ (Deprecated(call) /\ call.op = "while_loop" /\ call.pc = "exit") =>
          LET it == Iterate(call.fns[1], call.pre, call.args, call.i)
          IN  /\ last'.res = "ok"
              /\ last'.out = [j \in DOMAIN it.opnds |-> <<it.opnds[j]>>]
              /\ Store(obj') = it.store
    ]_vars

\* for_loop was handed dyn_vars = [b] for the body "a += x; return a", which
\* touches a alone, and has carried a, not b, over [1, 2, 3, 4] with jit on.
C14_Witness ==
  /\ call.op = "for_loop" /\ call.pc = "scan" /\ call.i = Len(call.xs)
  /\ call.given.dyn_vars = <<"b">> /\ call.jit
  /\ call.fns = <<"add_x">> /\ call.dyn = <<"a">>
  /\ call.carry["a"] = Filled(10)

\* C17: in an ifelse call whose branches all take the arguments that operands
\* unpacks to, whatever the form of operands and the number of conditions, the
\* branch that runs is called with exactly those arguments: the ones the
\* first branch would get.
C17_BranchesGetSameArguments ==
  [][(/\ call.op = "ifelse" /\ call.pc = "called" /\ call'.pc = "idle"
      /\ NumConds(call.conds) >= 1
      /\ Len(call.fns) = NumConds(call.conds) + 1
      /\ \A i \in DOMAIN call.fns : Accepts(call.fns[i], AsOperands(call.operands))) =>
       LET r == ifelse(call.conds, call.fns, Store(obj), call.operands, disable_jit)
       IN  /\ last'.res = "ok" /\ r.err = "ok"
           /\ r.got = AsOperands(call.operands)
    ]_vars

\* C18: the context stack is last-in first-out. add_context(tag) makes tag the
\* value of get_context(); del_context on a stack with regions removes the tag
\* added last and get_context() becomes the one added before it, None when
\* there is none; del_context on the empty stack raises MathError and the
\* stack stays empty; an Array made at any moment has as its context the tag
\* added last and not yet removed, None outside every region.
Top(st) == IF Len(st) = 0 THEN None ELSE st[Len(st)]
C18_ContextStackIsLifo ==
  [][/\ last'.op = "add_context" =>
          /\ ctxStack' = Append(ctxStack, last'.target)
          /\ get_context' = last'.target
     /\ (last'.op = "del_context" /\ Len(ctxStack) > 0) =>
          /\ ctxStack' = SubSeq(ctxStack, 1, Len(ctxStack) - 1)
          /\ get_context' = Top(SubSeq(ctxStack, 1, Len(ctxStack) - 1))
     /\ (last'.op = "del_context" /\ Len(ctxStack) = 0) =>
          /\ last'.res = "MathError"
          /\ ctxStack' = <<>> /\ get_context' = None
     /\ (last'.op = "new" /\ last'.res = "ok") =>
          /\ obj'[last'.target].ctx = Top(ctxStack)
          /\ obj'[last'.target].ctx = get_context
          /\ ctxStack' = ctxStack
    ]_cellVars

\* An Array made two regions deep, in the inner one.
C18_Witness ==
  /\ last.op = "new" /\ last.res = "ok"
  /\ Len(ctxStack) = 2 /\ ctxStack[1] # ctxStack[2]
  /\ obj[last.target].ctx = ctxStack[2]

\* The Variables f meets, in the order it meets them, repeats included.
Accesses(f) ==
  [i \in DOMAIN UserFn(f).stmts |-> UserFn(f).stmts[i].v]
    \o [i \in DOMAIN SelectSeq(UserFn(f).ret, ReadsVar) |->
          SelectSeq(UserFn(f).ret, ReadsVar)[i].v]
FirstAt(s, v) == CHOOSE i \in DOMAIN s : s[i] = v /\ \A k \in 1 .. i - 1 : s[k] # v
\* d holds every element of s once, ordered by first occurrence in s.
OnceInOrderOf(d, s) ==
  /\ \A i \in DOMAIN d, k \in DOMAIN d : d[i] = d[k] => i = k
  /\ Range(d) = Range(s)
  /\ \A i \in DOMAIN d, k \in DOMAIN d : i < k => FirstAt(s, d[i]) < FirstAt(s, d[k])
\* d is l followed by the entries of r that l does not hold, in r's order.
LeftThenNew(d, l, r) ==
  LET New(v) == v \notin Range(l)
  IN  d = l \o SelectSeq(r, New)

\* C19: the stack discovered for a function holds each Variable the function
\* meets once, in first-encounter order; the stack cond threads (true_fun's
\* merged with false_fun's) and the one while_loop threads (body_fun's merged
\* with cond_fun's) hold every Variable of either stack once: the left stack,
\* then the entries of the right stack that the left one lacks.
C19_StackUnionKeepsOrder ==
  [][/\ (call.op = "cond" /\ call.pc = "called" /\ call'.pc = "idle" /\ ~disable_jit) =>
          LET d == CondDynVars(1, <<call.conds.v[1]>>, call.fns, disable_jit)
              l == evaluate_dyn_vars(call.fns[1])
              r == evaluate_dyn_vars(call.fns[2])
          IN  /\ OnceInOrderOf(l, Accesses(call.fns[1]))
              /\ OnceInOrderOf(r, Accesses(call.fns[2]))
              /\ OnceInOrderOf(d, l \o r)
              /\ LeftThenNew(d, l, r)
              /\ \A v \in ObjIds \ Range(d) : obj'[v] = obj[v]
     /\ (call.op = "while_loop" /\ call.pc = "called" /\ call'.pc = "test" /\ ~disable_jit) =>
          LET d == call'.dyn
              l == evaluate_dyn_vars(call.fns[1])
              r == evaluate_dyn_vars(call.fns[2])
          IN  /\ OnceInOrderOf(l, Accesses(call.fns[1]))
              /\ OnceInOrderOf(r, Accesses(call.fns[2]))
              /\ OnceInOrderOf(d, l \o r)
              /\ LeftThenNew(d, l, r)
    ]_vars

\* A while_loop whose cond_fun reads a Variable that body_fun has met already:
\* the merged stack holds it once, in body_fun's place.
C19_Witness ==
  /\ call.op = "while_loop" /\ call.pc = "test" /\ call.jit
  /\ call.fns = <<"body2", "cond_a">>
  /\ call.dyn = <<"a", "b">>

\* The values the Variables have when body_fun or cond_fun runs in a step.
WhileStore ==
  [v \in ObjIds |-> IF v \in Range(call.dyn) THEN call.carry[v]
                    ELSE (IF call.jit THEN call.pre ELSE Store(obj))[v]]

\* C20: the operands of the first test are those of the call; the operands
\* after a body run are what body_fn returned on the operands before it, as
\* a tuple: () for None, (r,) for one value r, the tuple itself otherwise, and
\* never longer than what it returned; a test leaves them as they are; the
\* call returns the operands of the test that ended it.
C20_WhileOperandsThreaded ==
  [][/\ (call.op = "while_loop" /\ call.pc = "called" /\ call'.pc = "test") =>
          call'.opnds = call.args
     /\ (call.op = "while_loop" /\ call.pc = "body" /\ call'.pc = "test") =>
          LET f == call.fns[1]
              out == RunFn(f, WhileStore, call.opnds).out
          IN  /\ UserFn(f).ret = <<>> => call'.opnds = <<>>
              /\ (Len(UserFn(f).ret) = 1 /\ ~ReturnsTuple(f)) => call'.opnds = <<out[1][1]>>
              /\ ReturnsTuple(f) => call'.opnds = [j \in DOMAIN out |-> out[j][1]]
              /\ Len(call'.opnds) = Len(call.args)
     /\ (call.op = "while_loop" /\ call.pc = "test" /\ call'.op = "while_loop") =>
          call'.opnds = call.opnds
     /\ (call.op = "while_loop" /\ call.pc = "exit" /\ call'.pc = "idle") =>
          /\ last'.res = "ok"
          /\ last'.out = [j \in DOMAIN call.opnds |-> <<call.opnds[j]>>]
    ]_vars

\* A loop on a body returning one value, in its second round.
C20_Witness ==
  /\ call.op = "while_loop" /\ call.pc = "test" /\ call.i = 2
  /\ call.fns[1] = "step" /\ call.args = <<1>> /\ call.opnds = <<3>>

\* C21: a for_loop call that finds a stack cached for body_fn's identity
\* threads that stack and leaves the cache as it is; discovery runs only in a
\* jit-enabled call that finds none, and its result is cached. A Variable that
\* body_fn has come to touch since is not in the carried state of the call,
\* and the call returns as any other.
C21_StaleCacheMissesNewVariables ==
  [][/\ \A g \in BodyFns : stack_cache[g].has => stack_cache'[g] = stack_cache[g]
     /\ (call.op = "for_loop" /\ call.pc = "called" /\ call'.pc = "scan") =>
          LET f == call.fns[1]
              entry == stack_cache[Identity(f)]
          IN  /\ entry.has =>
                    /\ call'.dyn = entry.stack
                    /\ \A v \in Range(evaluate_dyn_vars(f)) \ Range(entry.stack) :
                         v \notin Range(call'.dyn)
              /\ (~entry.has /\ call.jit) =>
                    /\ call'.dyn = evaluate_dyn_vars(f)
                    /\ stack_cache'[Identity(f)] = [has |-> TRUE, stack |-> call'.dyn]
              /\ (~entry.has /\ ~call.jit) =>
                    /\ call'.dyn = <<>> /\ stack_cache' = stack_cache
     /\ (ForLoopEnds /\ call.cached) => last'.res = "ok"
    ]_vars

\* grow was cached while it touched a alone and is called, jit on, now that it
\* writes b as well: b is not carried.
C21_Witness ==
  /\ call.op = "for_loop" /\ call.pc = "scan" /\ call.i = 1
  /\ call.fns = <<"grow1">> /\ call.jit /\ call.cached
  /\ stack_cache["grow"] = [has |-> TRUE, stack |-> <<"a">>]
  /\ call.dyn = <<"a">> /\ "b" \in Range(evaluate_dyn_vars("grow1"))

\* C22: discovery leaves the Variables as they were. The state handed to the
\* trace primitive (the carry of the first for_loop step and of the first
\* while_loop test, old_values of cond) holds, for every discovered Variable,
\* the value the Variable had just before the call, whether or not the call
\* had to discover them; and cond, which returns at once, leaves in them what
\* the selected branch makes of those values.
C22_DiscoveryLeavesValues ==
  [][/\ (call.op \in {"for_loop", "while_loop"} /\ call.pc = "called"
         /\ call'.pc \in {"scan", "test"}) =>
          \A v \in Range(call'.dyn) : call'.carry[v] = Store(obj)[v]
     /\ (call.op = "cond" /\ call.pc = "called" /\ call'.pc = "idle" /\ ~disable_jit) =>
          LET cv == <<call.conds.v[1]>>
              sel == IF call.conds.v[1] THEN call.fns[1] ELSE call.fns[2]
          IN  \A v \in Range(CondDynVars(1, cv, call.fns, disable_jit)) :
                /\ CondOldValues(1, cv, call.fns, Store(obj), disable_jit)[v] = Store(obj)[v]
                /\ Store(obj')[v] = RunFn(sel, Store(obj), call.args).store[v]
    ]_vars

\* A jit-enabled for_loop that had to discover its body's Variables, about to
\* take its first step from a = 1.
C22_Witness ==
  /\ call.op = "for_loop" /\ call.pc = "scan" /\ call.i = 0
  /\ call.jit /\ ~call.cached /\ call.dyn = <<"a", "b">>
  /\ call.pre["a"] = Filled(1) /\ call.carry["a"] = Filled(1)
  /\ Store(obj)["a"] = Tracer

\* C30: del_context(name) on a stack with regions takes the top tag off, also
\* when that tag is not name and the call raises MathError: the stack is then
\* one entry shorter, and the call raises exactly when name is given and
\* differs from the tag taken off.
C30_FailedDelContextStillPops ==
  [][(last'.op = "del_context" /\ Len(ctxStack) > 0) =>
       /\ Len(ctxStack') = Len(ctxStack) - 1
       /\ \A i \in DOMAIN ctxStack' : ctxStack'[i] = ctxStack[i]
       /\ (last'.res = "MathError") <=>
            (last'.target # None /\ last'.target # ctxStack[Len(ctxStack)])
       /\ last'.res \in {"ok", "MathError"}
    ]_cellVars

\* del_context('jit') has just raised where the region on top was another: two
\* regions were open, one is left.
C30_Witness ==
  /\ last.op = "del_context" /\ last.res = "MathError" /\ last.target = "jit"
  /\ Len(ctxStack) = 1

\* C28: a Variable made with an explicit batch_axis = k, from a plain value or
\* from another Variable, either is not made (k is not below the number of
\* axes: MathError; k differs from the batch_axis the source Variable has:
\* ValueError) or has batch_axis = k, also when the source Variable has none.
C28_ExplicitBatchAxisKept ==
  [][/\ \A t \in InitTensors, k \in BatchAxes \ {NoBatch}, cls \in PlainClasses :
          NewVariable("a", cls, t, k) =>
            \/ last'.res = "MathError" /\ k[1] >= Len(t.shape) /\ obj' = obj
            \/ last'.res = "ok" /\ obj'["a"].batch_axis = k
     /\ \A k \in BatchAxes \ {NoBatch}, cls \in PlainClasses :
          NewVariableOf("b", cls, "a", k) =>
            \/ last'.res = "MathError" /\ k[1] >= Len(obj["a"].value.shape) /\ obj' = obj
            \/ /\ last'.res = "ValueError" /\ obj' = obj
               /\ obj["a"].batch_axis \notin {NoBatch, k}
            \/ last'.res = "ok" /\ obj'["b"].batch_axis = k
    ]_cellVars

\* C29: the deprecated wrappers round-trip the default method: a
\* get_default_odeint() that follows set_default_odeint(m) returns m, and
\* every get returns the default in force; the same for the SDE pair.
C29_WrappersRoundTrip ==
  [][/\ (last.op = "set_default_odeint" /\ last'.op = "get_default_odeint") =>
          last'.out = <<last.target>>
     /\ last'.op = "get_default_odeint" => last'.out = <<integ.ode>>
     /\ (last.op = "set_default_sdeint" /\ last'.op = "get_default_sdeint") =>
          last'.out = <<last.target>>
     /\ last'.op = "get_default_sdeint" => last'.out = <<integ.sde>>
    ]_vars

\* C26: a finder is not made when included_vars and excluded_vars are both
\* given non-empty (ValueError); in a finder that is made no Variable is among
\* both the included and the excluded ones, and for a DynamicalSystem the two
\* together hold every Variable of the target.
C26_IncludedExcludedDisjoint ==
  [][\A target \in Targets, included \in IncludedArgs, excluded \in ExcludedArgs :
       NewFinder(target, included, excluded) =>
         /\ (Len(included) > 0 /\ Len(excluded) > 0) =>
              (last'.res = "ValueError" /\ finder' = finder)
         /\ last'.res = "ok" =>
              /\ finder'.made
              /\ Values(finder'.included_vars) \cap Values(finder'.excluded_vars) = {}
              /\ target.ds =>
                   Values(target.vars) \subseteq
                     Values(finder'.included_vars) \cup Values(finder'.excluded_vars)
    ]_vars

\* A finder on the system of h and r with h included: r is excluded.
C26_Witness ==
  /\ last.op = "SlowPointFinder" /\ last.res = "ok" /\ finder.made
  /\ finder.target.ds
  /\ Values(finder.included_vars) = {"h"} /\ Values(finder.excluded_vars) = {"r"}
  /\ finder.included_vars[1].k = "x"

\* C27: after a search and any filters, fixed_points, losses and selected_ids
\* have one entry per kept candidate, entry j of each being the point and the
\* loss the search gave for candidate selected_ids[j]; selected_ids are
\* indices of the candidates of the search, each once, and a filter only takes
\* indices away.
Filters == {"filter_loss", "keep_unique", "exclude_outliers"}
C27_FinderArraysAligned ==
  [][finder'.found =>
       /\ Len(finder'.fixed_points) = Len(finder'.selected_ids)
       /\ Len(finder'.losses) = Len(finder'.selected_ids)
       /\ \A j \in DOMAIN finder'.selected_ids :
            /\ finder'.selected_ids[j] \in 0 .. finder'.num_candidate - 1
            /\ finder'.fixed_points[j] = finder'.res[finder'.selected_ids[j] + 1]
            /\ finder'.losses[j] = f_eval_loss(finder'.res[finder'.selected_ids[j] + 1])
            /\ \A k \in DOMAIN finder'.selected_ids :
                 j < k => finder'.selected_ids[j] < finder'.selected_ids[k]
       /\ last'.op \in Filters =>
            /\ Range(finder'.selected_ids) \subseteq Range(finder.selected_ids)
            /\ finder'.res = finder.res
    ]_vars

\* Three candidates were searched; after filters the second one alone is left.
C27_Witness ==
  /\ finder.found /\ last.op \in Filters
  /\ finder.num_candidate = 3 /\ finder.res = <<1, 4, 3>>
  /\ finder.selected_ids = <<1>> /\ finder.fixed_points = <<4>> /\ finder.losses = <<0>>

\* C23: while a loop primitive runs, no two slots of the carried state refer
\* to the same Variable: the dyn_vars of for_loop and while_loop are each
\* Variable the functions touch, once, and the list a make_loop or make_while
\* callable carries names no Variable twice.
NoDuplicates(s) == \A i, j \in DOMAIN s : s[i] = s[j] => i = j
C23_NoVariableCarriedTwice ==
  /\ (call.op = "for_loop" /\ call.pc = "scan" /\ call.jit /\ ~call.cached) =>
       /\ NoDuplicates(call.dyn)
       /\ Range(call.dyn) = Range(evaluate_dyn_vars(call.fns[1]))
  /\ (call.op = "while_loop" /\ call.pc \in {"test", "body", "exit"} /\ call.jit) =>
       /\ NoDuplicates(call.dyn)
       /\ Range(call.dyn) = Range(evaluate_dyn_vars(call.fns[1]))
                              \cup Range(evaluate_dyn_vars(call.fns[2]))
  /\ (call.op \in {"make_loop", "make_while"} /\ call.pc \in {"run", "test", "body", "exit"}) =>
       /\ Len(call.slots) = Len(call.dyn)
       /\ NoDuplicates(call.dyn)

\* C24: when the primitive under a callable of make_loop, make_while or
\* make_cond raises, the call ends with every Variable of dyn_vars holding
\* what it held when the call started; an UnexpectedTracerError ends it as
\* JaxTracerError, any other exception as itself.
C24_BuiltCallablesRestore ==
  [][(call.op \in {"make_loop", "make_while", "make_cond"}
        /\ call.pc \in {"run", "test", "body"} /\ call'.pc = "idle"
        /\ PrimitiveErr # "ok") =>
       /\ \A v \in Range(call.dyn) : Store(obj')[v] = call.pre[v]
       /\ last'.res = IF PrimitiveErr = "UnexpectedTracerError" THEN "JaxTracerError"
                       ELSE PrimitiveErr
    ]_vars

\* body_fn(x) run n times from S, each run on what the run before left.
RECURSIVE IterateOn(_, _, _, _)
IterateOn(f, S, x, n) ==
  IF n = 0 THEN S ELSE IterateOn(f, RunFn(f, S, <<x>>).store, x, n - 1)
\* The dyn_vars given to make_while name every Variable its functions touch.
Covered ==
  Range(evaluate_dyn_vars(call.fns[1])) \cup Range(evaluate_dyn_vars(call.fns[2]))
    \subseteq Range(call.dyn)

\* C25: with jit enabled, what cond_fn assigns to Variables is not carried:
\* in while_loop, and in a make_while callable whose dyn_vars name the
\* Variables touched, the carried values after i body runs are what i runs of
\* body_fn alone give from the values at the call, and the call leaves the
\* Variables with the values of the last body run.
C25_CondWritesNotCarried ==
  [][/\ (call'.op = "while_loop" /\ call'.jit /\ call'.pc \in {"test", "body", "exit"}) =>
          \A v \in Range(call'.dyn) :
            call'.carry[v] = Iterate(call'.fns[1], call'.pre, call'.args, call'.i).store[v]
     /\ (call.op = "while_loop" /\ call.jit /\ call.pc = "exit" /\ call'.pc = "idle") =>
          \A v \in Range(call.dyn) :
            Store(obj')[v] = Iterate(call.fns[1], call.pre, call.args, call.i).store[v]
     /\ (call.op = "make_while" /\ call.jit /\ Covered /\ call'.op = "make_while") =>
          \A k \in DOMAIN call'.slots :
            call'.slots[k] = IterateOn(call.fns[1], call'.pre, call.args[1], call'.i)[call.dyn[k]]
     /\ (call.op = "make_while" /\ call.jit /\ Covered /\ call.pc = "exit"
           /\ call'.pc = "idle") =>
          \A v \in Range(call.dyn) :
            Store(obj')[v] = IterateOn(call.fns[1], call.pre, call.args[1], call.i)[v]
    ]_vars

\* a = 0, while_loop(step, cond_w, 1) with jit enabled: cond_w adds 1 to a and
\* tests a < 4; the body runs on a = 0 and a = 1 and the loop ends at a = 3.
C25_Witness ==
  /\ call.op = "while_loop" /\ call.jit /\ call.fns = <<"step", "cond_w">>
  /\ call.pc = "exit" /\ call.i = 2 /\ call.carry["a"] = Filled(3)

====
